---- MODULE Spec2Model ----
(***************************************************************************)
(* Model of vita3k/app/src/app_init.cpp: the path resolver (init_paths),   *)
(* the viewport calculator (update_viewport), the driver loader            *)
(* (load_custom_driver), the bootstrap sequencer (init, late_init) and the *)
(* lifecycle controller (switch_state).                                    *)
(***************************************************************************)
EXTENDS Integers, Sequences, FiniteSets, TLC

VARIABLES
    platform,       \* the build target: which #if branches are compiled in
    env,            \* the process environment and the file system probed by init_paths
    root_paths,     \* Root: the seven resolved paths
    created,        \* the directories init_paths has created
    pc,             \* position of the controlling thread in the bootstrap
    cfg,            \* state.cfg: the configuration
    renderer,       \* state.renderer: current_backend, mapping_method
    window,         \* the SDL window: its drawable size in pixels
    drawable_size,  \* state.drawable_size
    viewport_pos,   \* state.viewport_pos
    viewport_size,  \* state.viewport_size
    state,          \* EmuEnvState: the paths, backend and display fields init sets
    persisted,      \* the configuration file config::serialize_config last wrote
    mem,            \* state.mem
    kernel,         \* state.kernel: cpu_backend, the threads' status
    audio,          \* state.audio: the output stream
    calls,          \* the calls made to the collaborators so far, in order
    display,        \* state.display.imgui_render and the controller overlay
    history,        \* the last calls of the lifecycle controller and its peers
    runnable_before, \* the threads that were runnable when the pause began
    switching,      \* the switch_state call in progress: its argument and next step
    sync,           \* the per-thread mutexes and the actors working under them
    switching_other \* a switch_state call in progress on a second input source

pathVars == <<platform, env, root_paths, created>>
viewVars == <<drawable_size, viewport_pos, viewport_size>>
envVars == <<state, persisted, mem, kernel, audio, calls>>
lifeVars == <<display, history, runnable_before, switching, sync, switching_other>>
vars == <<pathVars, pc, cfg, renderer, window, viewVars, envVars, lifeVars>>

(***************************************************************************)
(* Paths.  An fs::path is the sequence of its elements; a trailing         *)
(* separator is a last element "" (the element a path ending in '/' has).  *)
(***************************************************************************)

\* getenv() returning NULL, and a null char* from SDL
NULL == <<"<null>">>

\* app_name and org_name, both "Vita3K" (see the literal on line 313)
app_name == "Vita3K"

Last(p) == p[Len(p)]

HasTrailingSep(p) == p # <<>> /\ Last(p) = ""

\* the path without its trailing separator
StripSep(p) == IF HasTrailingSep(p) THEN SubSeq(p, 1, Len(p) - 1) ELSE p

\* fs::path operator/ with a one-element right operand; p / "" gives p a
\* trailing separator
Slash(p, c) ==
    IF c = ""
    THEN IF HasTrailingSep(p) THEN p ELSE Append(p, "")
    ELSE Append(StripSep(p), c)

\* fs::path::parent_path(): drops the last element (the empty one first)
parent_path(p) == IF p = <<>> THEN <<>> ELSE SubSeq(p, 1, Len(p) - 1)

\* p is q or lies under q
RootedUnder(p, q) ==
    LET d == StripSep(q)
    IN  Len(p) >= Len(d) /\ SubSeq(p, 1, Len(d)) = d

(***************************************************************************)
(* The environment init_paths reads: SDL's answers, the getenv() values    *)
(* and the file-system probes.                                             *)
(***************************************************************************)

Platforms == {"android", "apple", "linux", "other"}

\* longest XDG_DATA_DIRS list the model enumerates
MaxDataDirs == 2

\* getenv("XDG_DATA_DIRS") returning NULL, as a value comparable with lists
NULL_LIST == <<NULL>>

\* where the executable lives (SDL_GetBasePath), per platform
InstallDir == <<"opt", "vita3k", "">>
AppleBundleResources == <<"Applications", "Vita3K.app", "Contents", "Resources", "">>
\* SDL_AndroidGetExternalStoragePath()
AndroidStorage == <<"sdcard", "Android", "data", "org.vita3k.emulator", "files">>

HomeDir == <<"home", "user">>
DataHomeDir == <<"xdg", "data">>
ConfigHomeDir == <<"xdg", "config">>
CacheHomeDir == <<"xdg", "cache">>
\* an XDG_CONFIG_HOME that points into the data home's application directory
NestedConfigHomeDir == <<"xdg", "data", "Vita3K">>
AppImageDir == <<"tmp", ".mount_Vita3K">>
DataDirCandidates == {<<"usr", "local", "share">>, <<"usr", "share">>}

\* the three entries the static-assets probes look for (lines 295, 309)
AssetMarkers == {"data", "lang", "shaders-builtin"}
MarkerSets == {{}, {"data", "lang"}, AssetMarkers}

RECURSIVE SeqsUpTo(_, _)
SeqsUpTo(S, n) ==
    IF n = 0 THEN {<<>>}
    ELSE LET shorter == SeqsUpTo(S, n - 1)
         IN  shorter \cup {Append(q, x) : q \in shorter, x \in S}

SeqRange(q) == {q[i] : i \in 1..Len(q)}

DataDirsValues == {NULL_LIST} \cup SeqsUpTo(DataDirCandidates, MaxDataDirs)

EnvRecords ==
    [ HOME : {NULL, HomeDir},
      XDG_DATA_HOME : {NULL, DataHomeDir},
      XDG_CONFIG_HOME : {NULL, ConfigHomeDir, NestedConfigHomeDir},
      XDG_CACHE_HOME : {NULL, CacheHomeDir},
      XDG_DATA_DIRS : DataDirsValues,
      APPDIR : {NULL, AppImageDir},
      installed_in_pref : BOOLEAN,            \* the executable sits in SDL's pref directory
      portable : BOOLEAN,                     \* the portable directory exists
      base_markers : MarkerSets,              \* which asset entries exist under the base path
      data_home_markers : MarkerSets,         \* ... under XDG_DATA_HOME/Vita3K
      data_dirs_with_app : SUBSET DataDirCandidates, \* entries d with d/Vita3K present
      appdir_assets : BOOLEAN,                \* APPDIR/usr/share/Vita3K exists
      config_yml : BOOLEAN,                   \* legacy config.yml at the base path
      ux0 : BOOLEAN ]                         \* legacy ux0 under SDL's pref path

\* a probe the code never makes in this environment is left at its default
LinuxEnvOk(e) ==
    /\ ~e.config_yml /\ ~e.ux0
    /\ (e.XDG_DATA_HOME = NULL => e.data_home_markers = {})
    /\ (e.APPDIR = NULL => ~e.appdir_assets)
    /\ e.data_dirs_with_app \subseteq
          (IF e.XDG_DATA_DIRS = NULL_LIST THEN {} ELSE SeqRange(e.XDG_DATA_DIRS))
    /\ ~e.installed_in_pref

NoLinuxEnv(e) ==
    /\ e.HOME = NULL /\ e.XDG_DATA_HOME = NULL /\ e.XDG_CONFIG_HOME = NULL
    /\ e.XDG_CACHE_HOME = NULL /\ e.XDG_DATA_DIRS = NULL_LIST /\ e.APPDIR = NULL
    /\ e.base_markers = {} /\ e.data_home_markers = {}
    /\ e.data_dirs_with_app = {} /\ ~e.appdir_assets

Environments(plat) ==
    CASE plat = "linux" -> {e \in EnvRecords : LinuxEnvOk(e)}
      [] plat = "apple" -> {e \in EnvRecords : NoLinuxEnv(e) /\ ~e.installed_in_pref}
      [] plat = "other" -> {e \in EnvRecords : NoLinuxEnv(e) /\ ~e.config_yml /\ ~e.ux0}
      [] OTHER -> {e \in EnvRecords : NoLinuxEnv(e) /\ ~e.config_yml /\ ~e.ux0
                                       /\ ~e.installed_in_pref /\ ~e.portable}

\* SDL_GetPrefPath(org_name, app_name): the per-user data directory of the
\* platform; on Linux derived from XDG_DATA_HOME, else HOME, else NULL
SDL_GetPrefPath(plat, e) ==
    CASE plat = "linux" ->
           IF e.XDG_DATA_HOME # NULL
           THEN Slash(Slash(Slash(e.XDG_DATA_HOME, app_name), app_name), "")
           ELSE IF e.HOME # NULL
           THEN Slash(Slash(Slash(Slash(Slash(e.HOME, ".local"), "share"), app_name), app_name), "")
           ELSE NULL
      [] plat = "apple" ->
           <<"Users", "user", "Library", "Application Support", app_name, app_name, "">>
      [] OTHER -> <<"Users", "user", "AppData", "Roaming", app_name, app_name, "">>

\* SDL_GetBasePath(): the directory of the executable, with its separator
SDL_GetBasePath(plat, e) ==
    CASE plat = "apple" -> AppleBundleResources
      [] plat = "android" -> AndroidStorage
      [] OTHER -> IF e.installed_in_pref THEN SDL_GetPrefPath(plat, e) ELSE InstallDir

\* the portable directory init_paths probes (lines 221-227)
PortablePath(plat, base_path) ==
    IF plat = "apple"
    THEN Slash(Slash(parent_path(parent_path(parent_path(parent_path(base_path)))), "portable"), "")
    ELSE Slash(Slash(base_path, "portable"), "")

\* the directories and files that exist when init_paths runs
FsEntries(plat, e) ==
    LET base == SDL_GetBasePath(plat, e)
        pref == SDL_GetPrefPath(plat, e)
    IN  (IF e.portable THEN {StripSep(PortablePath(plat, base))} ELSE {})
        \cup {Slash(base, m) : m \in e.base_markers}
        \cup {Slash(Slash(e.XDG_DATA_HOME, app_name), m) : m \in e.data_home_markers}
        \cup {Slash(d, app_name) : d \in e.data_dirs_with_app}
        \cup (IF e.appdir_assets
              THEN {Slash(Slash(Slash(e.APPDIR, "usr"), "share"), "Vita3K")} ELSE {})
        \cup (IF e.config_yml THEN {Slash(base, "config.yml")} ELSE {})
        \cup (IF e.ux0 THEN {Slash(pref, "ux0")} ELSE {})

\* fs::exists / fs::is_directory
exists(plat, e, p) == StripSep(p) \in FsEntries(plat, e)

(***************************************************************************)
(* The emulator state before the bootstrap                                 *)
(***************************************************************************)

\* a float with value zero, and a vector of two floats (SceFVector2)
FZero == [s |-> 0, m |-> 0, e |-> 0]
FVec(a, b) == [x |-> a, y |-> b]

\* renderer::Backend, and a value outside the enumeration (the default: cases)
Backends == {"OpenGL", "Vulkan"}
UnimplementedBackend == "Unimplemented"

\* MappingMethod
MappingMethods == {"Direct", "PageTable", "NativeBuffer"}

\* the configuration as config::init leaves it
DefaultCfg ==
    [ stretch_the_display_area |-> FALSE,
      console |-> FALSE,
      fullscreen |-> FALSE,
      pref_path |-> <<>>,
      backend_renderer |-> "Vulkan",
      audio_backend |-> "SDL",
      discord_rich_presence |-> TRUE,
      enable_gamepad_overlay |-> TRUE,
      gdbstub |-> FALSE,
      overwrite_config |-> TRUE,
      current_config |-> [backend_renderer |-> "Vulkan", custom_driver_name |-> ""] ]

\* the fields of EmuEnvState that init assigns, before init
EmptyState ==
    [ base_path |-> <<>>, default_path |-> <<>>, log_path |-> <<>>,
      config_path |-> <<>>, cache_path |-> <<>>, shared_path |-> <<>>,
      static_assets_path |-> <<>>, pref_path |-> <<>>,
      backend_renderer |-> "none", fullscreen |-> FALSE,
      res_width_dpi_scale |-> 0, res_height_dpi_scale |-> 0 ]

\* no configuration file written yet
NoFile == [written |-> FALSE, backend_renderer |-> "", pref_path |-> <<>>]

NoMem == [initialized |-> FALSE, use_page_table |-> FALSE]

CPUBackends == {"Dynarmic", "Unicorn"}

\* no emulated thread exists during the bootstrap
NoThreads == [t \in {} |-> "none"]

NoAudio == [initialized |-> FALSE, resume_thread |-> FALSE, paused |-> FALSE]

NoViewport ==
    /\ drawable_size = [x |-> 0, y |-> 0]
    /\ viewport_pos = FVec(FZero, FZero)
    /\ viewport_size = FVec(FZero, FZero)

FreshEmuEnv ==
    /\ state = EmptyState
    /\ persisted = NoFile
    /\ mem = NoMem
    /\ kernel = [cpu_backend |-> "Dynarmic", threads |-> NoThreads, paused |-> FALSE]
    /\ audio = NoAudio
    /\ calls = <<>>

\* the display flags and the lifecycle history before any switch_state
NoDisplay == [imgui_render |-> TRUE, controller_overlay |-> "hidden"]

\* no switch_state call is in progress
NotSwitching == [step |-> 0, pause |-> FALSE]

\* no thread mutex is held and no actor is at work on a thread's status
NoSync == [mutex |-> <<>>, actor |-> <<>>]

\* no second source is inside switch_state, and the latest call overlapped none
NoOtherSource == [step |-> 0, pause |-> FALSE, overlapped |-> FALSE]

NoLifecycle ==
    /\ display = NoDisplay
    /\ history = <<>>
    /\ runnable_before = {}
    /\ switching = NotSwitching
    /\ sync = NoSync
    /\ switching_other = NoOtherSource

\* state.renderer before renderer::init, state.window before SDL_CreateWindow
NoRenderer == [current_backend |-> "none", mapping_method |-> "none"]
NoWindow == [w |-> 0, h |-> 0, open |-> FALSE]

(***************************************************************************)
(* init_paths                                                              *)
(***************************************************************************)

RECURSIVE SlashAll(_, _)
\* p / "a/b/c": one element after the other
SlashAll(p, cs) == IF cs = <<>> THEN p ELSE SlashAll(Slash(p, cs[1]), SubSeq(cs, 2, Len(cs)))

\* a default-constructed Root: every path empty
EmptyRoot ==
    [ base_path |-> <<>>, static_assets_path |-> <<>>, pref_path |-> <<>>,
      log_path |-> <<>>, config_path |-> <<>>, shared_path |-> <<>>,
      cache_path |-> <<>> ]

\* the roles other than the preference path
OtherRoles ==
    {"base_path", "static_assets_path", "log_path", "config_path", "shared_path", "cache_path"}

\* #ifdef ANDROID (lines 201-212)
AndroidRoots(storage) ==
    LET storage_path == Slash(storage, "")
        vita_storage_path == SlashAll(storage_path, <<"vita", "">>)
    IN  [ base_path |-> storage_path,
          static_assets_path |-> storage_path,
          pref_path |-> vita_storage_path,
          log_path |-> storage_path,
          config_path |-> storage_path,
          shared_path |-> storage_path,
          cache_path |-> SlashAll(storage_path, <<"cache", "">>) ]

\* the portable branch (lines 229-236), on top of lines 218-219
PortableRoots(base_path, portable_path) ==
    [ base_path |-> base_path,
      static_assets_path |-> base_path,
      pref_path |-> SlashAll(portable_path, <<"fs", "">>),
      log_path |-> portable_path,
      config_path |-> portable_path,
      shared_path |-> portable_path,
      cache_path |-> SlashAll(portable_path, <<"cache", "">>) ]

\* exists(dir/data) && exists(dir/lang) && exists(dir/shaders-builtin)
HasAssets(plat, e, dir) ==
    /\ exists(plat, e, Slash(dir, "data"))
    /\ exists(plat, e, Slash(dir, "lang"))
    /\ exists(plat, e, Slash(dir, "shaders-builtin"))

RECURSIVE LastDataDir(_, _, _, _)
\* FirstDataDir without the break: the last matching entry wins
LastDataDir(plat, e, env_paths, k) ==
    IF k > Len(env_paths) THEN NULL
    ELSE LET later == LastDataDir(plat, e, env_paths, k + 1)
         IN  IF later # NULL THEN later
             ELSE IF exists(plat, e, Slash(env_paths[k], app_name)) THEN env_paths[k]
             ELSE NULL

RECURSIVE FirstDataDir(_, _, _, _)
\* the loops of lines 302-307 and 323-328: the first entry i, from position k
\* on, with fs::exists(i / app_name); NULL when the loop ends without a break
FirstDataDir(plat, e, env_paths, k) ==
    IF k > Len(env_paths) THEN NULL
    ELSE IF exists(plat, e, Slash(env_paths[k], app_name)) THEN env_paths[k]
    ELSE FirstDataDir(plat, e, env_paths, k + 1)

\* lines 278-279
XdgPref(r, e) ==
    IF e.XDG_DATA_HOME # NULL
    THEN [r EXCEPT !.pref_path = SlashAll(e.XDG_DATA_HOME, <<app_name, app_name, "">>)]
    ELSE r

\* XdgConfig looking at HOME before XDG_CONFIG_HOME
XdgConfig_HomeFirst(r, e) ==
    IF e.HOME # NULL
    THEN [r EXCEPT !.config_path = SlashAll(e.HOME, <<".config", app_name, "">>)]
    ELSE IF e.XDG_CONFIG_HOME # NULL
    THEN [r EXCEPT !.config_path = SlashAll(e.XDG_CONFIG_HOME, <<app_name, "">>)]
    ELSE r

\* lines 281-284
XdgConfig(r, e) ==
    IF e.XDG_CONFIG_HOME # NULL
    THEN [r EXCEPT !.config_path = SlashAll(e.XDG_CONFIG_HOME, <<app_name, "">>)]
    ELSE IF e.HOME # NULL
    THEN [r EXCEPT !.config_path = SlashAll(e.HOME, <<".config", app_name, "">>)]
    ELSE r

\* lines 286-292
XdgCacheLog(r, e) ==
    IF e.XDG_CACHE_HOME # NULL
    THEN [r EXCEPT !.cache_path = SlashAll(e.XDG_CACHE_HOME, <<app_name, "">>),
                   !.log_path = SlashAll(e.XDG_CACHE_HOME, <<app_name, "">>)]
    ELSE IF e.HOME # NULL
    THEN [r EXCEPT !.cache_path = SlashAll(e.HOME, <<".cache", app_name, "">>),
                   !.log_path = SlashAll(e.HOME, <<".cache", app_name, "">>)]
    ELSE r

\* lines 295-315
XdgStaticAssets(plat, r, e) ==
    LET r1 == IF HasAssets(plat, e, r.base_path)
              THEN [r EXCEPT !.static_assets_path = r.base_path]
              ELSE IF e.HOME # NULL
              THEN [r EXCEPT !.static_assets_path =
                                 SlashAll(e.HOME, <<".local", "share", app_name, "">>)]
              ELSE r
        found == FirstDataDir(plat, e, e.XDG_DATA_DIRS, 1)
        r2 == IF e.XDG_DATA_DIRS # NULL_LIST
              THEN IF found # NULL
                   THEN [r1 EXCEPT !.static_assets_path = SlashAll(found, <<app_name, "">>)]
                   ELSE r1
              ELSE IF e.XDG_DATA_HOME # NULL
                      /\ HasAssets(plat, e, Slash(e.XDG_DATA_HOME, app_name))
              THEN [r1 EXCEPT !.static_assets_path =
                                  SlashAll(e.XDG_DATA_HOME, <<app_name, "">>)]
              ELSE r1
    IN  IF e.APPDIR # NULL /\ exists(plat, e, SlashAll(e.APPDIR, <<"usr", "share", "Vita3K">>))
        THEN [r2 EXCEPT !.static_assets_path = SlashAll(e.APPDIR, <<"usr", "share", "Vita3K">>)]
        ELSE r2

\* lines 317-331
XdgShared(plat, r, e) ==
    LET r1 == IF e.HOME # NULL
              THEN [r EXCEPT !.shared_path =
                                 SlashAll(e.HOME, <<".local", "share", app_name, "">>)]
              ELSE r
        found == FirstDataDir(plat, e, e.XDG_DATA_DIRS, 1)
    IN  IF e.XDG_DATA_DIRS # NULL_LIST
        THEN IF found # NULL
             THEN [r1 EXCEPT !.shared_path = SlashAll(found, <<app_name, "">>)]
             ELSE r1
        ELSE IF e.XDG_DATA_HOME # NULL
        THEN [r1 EXCEPT !.shared_path = SlashAll(e.XDG_DATA_HOME, <<app_name, "">>)]
        ELSE r1

\* the #if defined(__linux__) block (lines 269-332), statement after statement
LinuxXdgRoots(plat, r, e) ==
    XdgShared(plat, XdgStaticAssets(plat, XdgCacheLog(XdgConfig(XdgPref(r, e), e), e), e), e)

\* the Apple legacy markers (lines 244-261): the local base_path and pref_path
AppleBase(plat, e, base_path, pref_path) ==
    IF plat = "apple" /\ ~exists(plat, e, Slash(base_path, "config.yml"))
    THEN pref_path ELSE base_path

\* ApplePref without the "fs" suffix
ApplePref_NoFs(plat, e, pref_path) == pref_path

ApplePref(plat, e, pref_path) ==
    IF plat = "apple" /\ ~exists(plat, e, Slash(pref_path, "ux0"))
    THEN SlashAll(pref_path, <<"fs", "">>) ELSE pref_path

\* the else branch of line 237, given SDL's non-null pref path
NonPortableRoots(plat, e, sdl_base, sdl_pref) ==
    LET base_path == AppleBase(plat, e, sdl_base, sdl_pref)
        pref_path == ApplePref(plat, e, sdl_pref)
        r == [ base_path |-> sdl_base,
               static_assets_path |-> sdl_base,
               pref_path |-> pref_path,
               log_path |-> base_path,
               config_path |-> base_path,
               shared_path |-> base_path,
               cache_path |-> SlashAll(base_path, <<"cache", "">>) ]
    IN  IF plat = "linux" THEN LinuxXdgRoots(plat, r, e) ELSE r

\* SDL_GetPrefPath returned NULL and utf8_to_path was handed a null pointer
\* (line 241): no path is resolved past lines 218-219
PrefPathIsNull(plat, e) ==
    /\ plat # "android"
    /\ ~exists(plat, e, PortablePath(plat, SDL_GetBasePath(plat, e)))
    /\ SDL_GetPrefPath(plat, e) = NULL

\* ResolvedRoots with the XDG refinement applied to the portable roots too
ResolvedRoots_EnvOverPortable(plat, e) ==
    LET sdl_base == SDL_GetBasePath(plat, e)
        portable_path == PortablePath(plat, sdl_base)
    IN  IF plat = "android" THEN AndroidRoots(sdl_base)
        ELSE IF exists(plat, e, portable_path)
        THEN IF plat = "linux"
             THEN LinuxXdgRoots(plat, PortableRoots(sdl_base, portable_path), e)
             ELSE PortableRoots(sdl_base, portable_path)
        ELSE IF SDL_GetPrefPath(plat, e) = NULL
        THEN [EmptyRoot EXCEPT !.base_path = sdl_base, !.static_assets_path = sdl_base]
        ELSE NonPortableRoots(plat, e, sdl_base, SDL_GetPrefPath(plat, e))

\* the paths init_paths leaves in root_paths (lines 199-334)
ResolvedRoots(plat, e) ==
    LET sdl_base == SDL_GetBasePath(plat, e)
        portable_path == PortablePath(plat, sdl_base)
    IN  IF plat = "android" THEN AndroidRoots(sdl_base)
        ELSE IF exists(plat, e, portable_path) THEN PortableRoots(sdl_base, portable_path)
        ELSE IF SDL_GetPrefPath(plat, e) = NULL
        THEN [EmptyRoot EXCEPT !.base_path = sdl_base, !.static_assets_path = sdl_base]
        ELSE NonPortableRoots(plat, e, sdl_base, SDL_GetPrefPath(plat, e))

\* the four fs::create_directories calls, in order (lines 337-340)
DirsToCreate(r) ==
    << r.config_path, r.cache_path,
       Slash(r.log_path, "shaderlog"), Slash(r.log_path, "texturelog") >>

\* the directories of lines 337-340 as the log of calls names them
DirNames == <<"config_path", "cache_path", "log_path/shaderlog", "log_path/texturelog">>

\* the fs::create_directories calls made when the fail-th one fails (0: none
\* fails): fs::create_directories(p) reports a failure by throwing
\* fs::filesystem_error, and init_paths catches nothing
CreateCalls(fail) ==
    [i \in 1..(IF fail = 0 THEN Len(DirNames) ELSE fail) |->
        <<"fs::create_directories", DirNames[i], IF i = fail THEN "throw" ELSE "ok">>]

\* init_paths(root_paths).  fail is the create_directories call that throws
\* (0: none does).
init_paths(fail) ==
    /\ pc = "start"
    /\ LET r == ResolvedRoots(platform, env)
           dirs == DirsToCreate(r)
       IN  /\ root_paths' = r
           /\ IF PrefPathIsNull(platform, env)
              THEN created' = created /\ pc' = "paths_crashed" /\ calls' = calls
              ELSE IF fail = 0
              THEN /\ created' = created \cup SeqRange(dirs)
                   /\ pc' = "paths_done"
                   /\ calls' = calls \o CreateCalls(fail)
              ELSE /\ created' = created \cup {dirs[i] : i \in 1..(fail - 1)}
                   /\ pc' = "paths_threw"
                   /\ calls' = calls \o CreateCalls(fail)
    /\ UNCHANGED <<platform, env, cfg, renderer, window, viewVars,
                   state, persisted, mem, kernel, audio, lifeVars>>

InitPaths ==
    /\ platform \in Platforms
    /\ env \in Environments(platform)
    /\ root_paths = EmptyRoot
    /\ created = {}
    /\ pc = "start"
    /\ cfg = DefaultCfg
    /\ renderer = NoRenderer
    /\ window = NoWindow
    /\ NoViewport
    /\ FreshEmuEnv
    /\ NoLifecycle

NextPaths == \E fail \in 0..4 : init_paths(fail)

SpecPaths == InitPaths /\ [][NextPaths]_vars

(***************************************************************************)
(* Properties of init_paths                                                *)
(***************************************************************************)

\* init_paths has resolved every root (it returned, or threw while creating
\* directories after the resolution)
Resolved == pc \in {"paths_done", "paths_threw"}

\* the roles whose path equals the preference path
RolesEqualToPref == {role \in OtherRoles : root_paths[role] = root_paths.pref_path}

PortableActive ==
    /\ platform # "android"
    /\ exists(platform, env, PortablePath(platform, SDL_GetBasePath(platform, env)))

\* Apple, no portable directory, no legacy config.yml at the base path and a
\* legacy ux0 directory under SDL's pref path
AppleLegacyUx0 ==
    /\ platform = "apple" /\ ~PortableActive
    /\ ~exists(platform, env, Slash(SDL_GetBasePath(platform, env), "config.yml"))
    /\ exists(platform, env, Slash(SDL_GetPrefPath(platform, env), "ux0"))

\* neither the executable's directory nor the application directory of an
\* XDG_CONFIG_HOME, XDG_CACHE_HOME or XDG_DATA_DIRS entry is SDL's pref directory
EnvDirsClearOfPref ==
    LET pref == SDL_GetPrefPath(platform, env)
        named == {env.XDG_CONFIG_HOME, env.XDG_CACHE_HOME}
                 \cup (IF env.XDG_DATA_DIRS = NULL_LIST THEN {} ELSE SeqRange(env.XDG_DATA_DIRS))
    IN  /\ SDL_GetBasePath(platform, env) # pref
        /\ \A d \in named : d = NULL \/ SlashAll(d, <<app_name, "">>) # pref

\* C1 as stated: in every result of init_paths the preference path differs
\* from the base, static-assets, log, config, cache and shared paths.
C1_PrefDiffersFromAll == Resolved => RolesEqualToPref = {}

\* C1, amended: the preference path differs from the six other paths on
\* Android, in the portable branch and, when no directory the environment
\* names is SDL's pref directory, in the other desktop branches; except on
\* Apple with a legacy ux0 and no legacy config.yml, where exactly the log,
\* config and shared paths equal the preference path.
C1_PrefDiffersExceptAppleLegacy ==
    Resolved =>
        IF AppleLegacyUx0
        THEN RolesEqualToPref = {"log_path", "config_path", "shared_path"}
        ELSE (platform = "android" \/ PortableActive \/ EnvDirsClearOfPref)
                 => RolesEqualToPref = {}

\* C1 witness: a Linux resolution through XDG_DATA_HOME and a matching
\* XDG_DATA_DIRS entry has completed
C1_Witness ==
    /\ pc = "paths_done" /\ platform = "linux" /\ ~PortableActive
    /\ env.XDG_DATA_HOME # NULL /\ env.HOME # NULL
    /\ env.data_dirs_with_app # {}
    /\ EnvDirsClearOfPref

AllRoles == OtherRoles \cup {"pref_path"}

\* C2 as stated: with a portable directory present, all seven roots lie under
\* the portable directory.
C2_AllRootsUnderPortable ==
    (Resolved /\ PortableActive) =>
        \A role \in AllRoles :
            RootedUnder(root_paths[role], PortablePath(platform, SDL_GetBasePath(platform, env)))

\* C2, amended: with a portable directory present, the preference path is
\* portable/fs/, the log, config and shared paths are the portable directory
\* and the cache path is portable/cache/, while the base and static-assets
\* paths stay the executable's directory; no environment variable has a part
\* in any of the seven.
C2_PortableRootsIgnoreEnv ==
    (Resolved /\ PortableActive) =>
        LET base == SDL_GetBasePath(platform, env)
            portable == PortablePath(platform, base)
        IN  /\ root_paths.base_path = base
            /\ root_paths.static_assets_path = base
            /\ root_paths.pref_path = Append(StripSep(portable), "fs") \o <<"">>
            /\ root_paths.log_path = portable
            /\ root_paths.config_path = portable
            /\ root_paths.shared_path = portable
            /\ root_paths.cache_path = Append(StripSep(portable), "cache") \o <<"">>
            /\ \A role \in AllRoles \ {"base_path", "static_assets_path"} :
                   RootedUnder(root_paths[role], portable)

\* C2 witness: init_paths has run on Linux with a portable directory and
\* every environment variable set, with matching data directories
C2_Witness ==
    /\ pc = "paths_done" /\ platform = "linux" /\ PortableActive
    /\ env.HOME # NULL /\ env.XDG_DATA_HOME # NULL /\ env.XDG_CONFIG_HOME # NULL
    /\ env.XDG_CACHE_HOME # NULL /\ env.data_dirs_with_app # {} /\ env.appdir_assets

(***************************************************************************)
(* IEEE-754 binary32 arithmetic (float, SceFloat), round to nearest even.  *)
(* A float is [s, m, e] with value (-1)^s * m * 2^e, where m = 0 or        *)
(* 2^23 <= m < 2^24.  The magnitudes of the model stay far inside the      *)
(* exponent range, so overflow and subnormals do not arise.                *)
(***************************************************************************)

RECURSIVE BitLen(_)
\* the number of significant bits of n >= 0
BitLen(n) == IF n = 0 THEN 0 ELSE 1 + BitLen(n \div 2)

\* the float nearest to (-1)^s * (n + f) * 2^e, where 0 <= f < 1 and sticky
\* says f # 0; ties go to the even mantissa
RoundPack(s, n, sticky, e) ==
    IF n = 0 THEN FZero
    ELSE LET len == BitLen(n)
         IN  IF len <= 24
             THEN [s |-> s, m |-> n * 2^(24 - len), e |-> e - (24 - len)]
             ELSE LET k == len - 24
                      q == n \div 2^k
                      r == n % 2^k
                      half == 2^(k - 1)
                      up == \/ r > half
                            \/ r = half /\ sticky
                            \/ r = half /\ ~sticky /\ q % 2 = 1
                      m1 == IF up THEN q + 1 ELSE q
                  IN  IF m1 = 2^24
                      THEN [s |-> s, m |-> 2^23, e |-> e + k + 1]
                      ELSE [s |-> s, m |-> m1, e |-> e + k]

\* static_cast<float>(n) and the implicit int -> float conversion
FromInt(n) == RoundPack(IF n < 0 THEN 1 ELSE 0, IF n < 0 THEN -n ELSE n, FALSE, 0)

FNeg(a) == IF a.m = 0 THEN a ELSE [a EXCEPT !.s = 1 - a.s]

\* |a| < |b|
MagLess(a, b) ==
    IF a.m = 0 THEN b.m # 0
    ELSE b.m # 0 /\ (a.e < b.e \/ (a.e = b.e /\ a.m < b.m))

\* a < b
FLess(a, b) ==
    IF a.s = 0 /\ b.s = 0 THEN MagLess(a, b)
    ELSE IF a.s = 1 /\ b.s = 1 THEN MagLess(b, a)
    ELSE a.s = 1

\* a * b: the 48-bit product of the mantissas in two 24-bit halves
FMul(a, b) ==
    IF a.m = 0 \/ b.m = 0 THEN FZero
    ELSE LET ah == a.m \div 2^12
             al == a.m % 2^12
             bh == b.m \div 2^12
             bl == b.m % 2^12
             mid == ah * bl + al * bh
             t == (mid % 2^12) * 2^12 + al * bl
             low == t % 2^24
             high == ah * bh + mid \div 2^12 + t \div 2^24
         IN  RoundPack((a.s + b.s) % 2, high * 2^6 + low \div 2^18,
                       low % 2^18 # 0, a.e + b.e + 18)

RECURSIVE DivBits(_, _, _, _)
\* k more quotient bits of r / d by long division: <<quotient, remainder>>
DivBits(q, r, d, k) ==
    IF k = 0 THEN <<q, r>>
    ELSE IF 2 * r >= d THEN DivBits(2 * q + 1, 2 * r - d, d, k - 1)
    ELSE DivBits(2 * q, 2 * r, d, k - 1)

\* a / b, b # 0
FDiv(a, b) ==
    IF a.m = 0 THEN FZero
    ELSE LET qr == DivBits(a.m \div b.m, a.m % b.m, b.m, 26)
         IN  RoundPack((a.s + b.s) % 2, qr[1], qr[2] # 0, a.e - b.e - 26)

\* a + b
FAdd(a, b) ==
    IF a.m = 0 THEN b
    ELSE IF b.m = 0 THEN a
    ELSE LET big == IF MagLess(a, b) THEN b ELSE a
             small == IF MagLess(a, b) THEN a ELSE b
             d == IF big.e - small.e > 28 THEN 28 ELSE big.e - small.e
             A == big.m * 8
             B == (small.m * 8) \div 2^d
             sticky == (small.m * 8) % 2^d # 0
         IN  IF big.s = small.s
             THEN RoundPack(big.s, A + B, sticky, big.e - 3)
             ELSE IF sticky
             THEN RoundPack(big.s, A - B - 1, TRUE, big.e - 3)
             ELSE RoundPack(big.s, A - B, FALSE, big.e - 3)

\* a - b
FSub(a, b) == FAdd(a, FNeg(b))

(***************************************************************************)
(* update_viewport                                                         *)
(***************************************************************************)

\* largest drawable size the model enumerates
MaxDrawableW == 32
MaxDrawableH == 18

\* how far one resize moves each window edge
ResizeStep == 1

DEFAULT_RES_WIDTH == 960
DEFAULT_RES_HEIGHT == 544

\* SDL_GL_GetDrawableSize / SDL_Vulkan_GetDrawableSize; w and h keep their
\* initial 0 when the backend is neither (lines 149-164)
GetDrawableSize(backend, win) ==
    IF backend \in Backends THEN [x |-> win.w, y |-> win.h] ELSE [x |-> 0, y |-> 0]

\* ComputeViewport pinning the wrong edge: the aspect comparison reversed
ComputeViewport_SwappedPin(w, h, stretch) ==
    IF h > 0
    THEN LET window_aspect == FDiv(FromInt(w), FromInt(h))
             vita_aspect == FDiv(FromInt(DEFAULT_RES_WIDTH), FromInt(DEFAULT_RES_HEIGHT))
         IN  IF stretch
             THEN [ size |-> FVec(FromInt(w), FromInt(h)),
                    pos |-> FVec(FromInt(0), FromInt(0)) ]
             ELSE IF FLess(window_aspect, vita_aspect)
             THEN LET size_x == FMul(FromInt(h), vita_aspect)
                  IN  [ size |-> FVec(size_x, FromInt(h)),
                        pos |-> FVec(FDiv(FSub(FromInt(w), size_x), FromInt(2)), FromInt(0)) ]
             ELSE LET size_y == FDiv(FromInt(w), vita_aspect)
                  IN  [ size |-> FVec(FromInt(w), size_y),
                        pos |-> FVec(FromInt(0), FDiv(FSub(FromInt(h), size_y), FromInt(2))) ]
    ELSE [ size |-> FVec(FromInt(0), FromInt(0)), pos |-> FVec(FromInt(0), FromInt(0)) ]

\* ComputeViewport with the stretch setting ignored and no guard on h beyond
\* the division: a zero-height window keeps the full width
ComputeViewport_StretchIgnored(w, h, stretch) ==
    IF h > 0
    THEN LET window_aspect == FDiv(FromInt(w), FromInt(h))
             vita_aspect == FDiv(FromInt(DEFAULT_RES_WIDTH), FromInt(DEFAULT_RES_HEIGHT))
         IN  IF FLess(vita_aspect, window_aspect)
             THEN LET size_x == FMul(FromInt(h), vita_aspect)
                  IN  [ size |-> FVec(size_x, FromInt(h)),
                        pos |-> FVec(FDiv(FSub(FromInt(w), size_x), FromInt(2)), FromInt(0)) ]
             ELSE LET size_y == FDiv(FromInt(w), vita_aspect)
                  IN  [ size |-> FVec(FromInt(w), size_y),
                        pos |-> FVec(FromInt(0), FDiv(FSub(FromInt(h), size_y), FromInt(2))) ]
    ELSE [ size |-> FVec(FromInt(w), FromInt(0)), pos |-> FVec(FromInt(0), FromInt(0)) ]

\* ComputeViewport centring a wide window's viewport with the sign reversed
ComputeViewport_CentreSign(w, h, stretch) ==
    IF h > 0
    THEN LET window_aspect == FDiv(FromInt(w), FromInt(h))
             vita_aspect == FDiv(FromInt(DEFAULT_RES_WIDTH), FromInt(DEFAULT_RES_HEIGHT))
         IN  IF stretch
             THEN [ size |-> FVec(FromInt(w), FromInt(h)),
                    pos |-> FVec(FromInt(0), FromInt(0)) ]
             ELSE IF FLess(vita_aspect, window_aspect)
             THEN LET size_x == FMul(FromInt(h), vita_aspect)
                  IN  [ size |-> FVec(size_x, FromInt(h)),
                        pos |-> FVec(FDiv(FSub(size_x, FromInt(w)), FromInt(2)), FromInt(0)) ]
             ELSE LET size_y == FDiv(FromInt(w), vita_aspect)
                  IN  [ size |-> FVec(FromInt(w), size_y),
                        pos |-> FVec(FromInt(0), FDiv(FSub(FromInt(h), size_y), FromInt(2))) ]
    ELSE [ size |-> FVec(FromInt(0), FromInt(0)), pos |-> FVec(FromInt(0), FromInt(0)) ]

\* lines 169-196: the viewport for a drawable size and the stretch setting
ComputeViewport(w, h, stretch) ==
    IF h > 0
    THEN LET window_aspect == FDiv(FromInt(w), FromInt(h))
             vita_aspect == FDiv(FromInt(DEFAULT_RES_WIDTH), FromInt(DEFAULT_RES_HEIGHT))
         IN  IF stretch
             THEN [ size |-> FVec(FromInt(w), FromInt(h)),
                    pos |-> FVec(FromInt(0), FromInt(0)) ]
             ELSE IF FLess(vita_aspect, window_aspect)
             THEN LET size_x == FMul(FromInt(h), vita_aspect)
                  IN  [ size |-> FVec(size_x, FromInt(h)),
                        pos |-> FVec(FDiv(FSub(FromInt(w), size_x), FromInt(2)), FromInt(0)) ]
             ELSE LET size_y == FDiv(FromInt(w), vita_aspect)
                  IN  [ size |-> FVec(FromInt(w), size_y),
                        pos |-> FVec(FromInt(0), FDiv(FSub(FromInt(h), size_y), FromInt(2))) ]
    ELSE [ size |-> FVec(FromInt(0), FromInt(0)), pos |-> FVec(FromInt(0), FromInt(0)) ]

\* update_viewport(state), called with the window's drawable area at w x h:
\* at start-up and after the user has resized the window by up to
\* ResizeStep pixels in each direction
update_viewport(w, h) ==
    /\ window.open
    /\ w - window.w \in -ResizeStep..ResizeStep
    /\ h - window.h \in -ResizeStep..ResizeStep
    /\ window' = [window EXCEPT !.w = w, !.h = h]
    /\ LET d == GetDrawableSize(renderer.current_backend, window')
           v == ComputeViewport(d.x, d.y, cfg.stretch_the_display_area)
       IN  /\ drawable_size' = d
           /\ viewport_pos' = v.pos
           /\ viewport_size' = v.size
    /\ UNCHANGED <<pathVars, pc, cfg, renderer, envVars, lifeVars>>

InitViewport ==
    /\ platform = "linux"
    /\ env \in Environments("android")
    /\ root_paths = AndroidRoots(AndroidStorage)
    /\ created = {}
    /\ pc = "running"
    /\ cfg \in {[DefaultCfg EXCEPT !.stretch_the_display_area = b] : b \in BOOLEAN}
    /\ renderer \in {[current_backend |-> b, mapping_method |-> "Direct"] :
                        b \in Backends \cup {UnimplementedBackend}}
    /\ window = [w |-> 0, h |-> 0, open |-> TRUE]
    /\ NoViewport
    /\ FreshEmuEnv
    /\ NoLifecycle

\* the drawable sizes SDL hands back through the int out-parameters w and h:
\* the code provides for a height that is not positive
DrawableWidths == 0..MaxDrawableW
DrawableHeights == -1..MaxDrawableH

NextViewport == \E w \in DrawableWidths, h \in DrawableHeights : update_viewport(w, h)

SpecViewport == InitViewport /\ [][NextViewport]_vars

(***************************************************************************)
(* Properties of update_viewport                                           *)
(***************************************************************************)

RECURSIVE GCD(_, _)
GCD(a, b) == IF b = 0 THEN a ELSE GCD(b, a % b)

\* the reference aspect ratio 960/544 in lowest terms
RefNum == DEFAULT_RES_WIDTH \div GCD(DEFAULT_RES_WIDTH, DEFAULT_RES_HEIGHT)
RefDen == DEFAULT_RES_HEIGHT \div GCD(DEFAULT_RES_WIDTH, DEFAULT_RES_HEIGHT)

Abs(n) == IF n < 0 THEN -n ELSE n

\* float a holds exactly the integer n >= 0
HoldsInt(a, n) ==
    /\ a.s = 0
    /\ IF n = 0 THEN a.m = 0
       ELSE a.m # 0 /\ a.e \in -23..0 /\ a.m = n * 2^(-a.e)

\* a / b = RefNum / RefDen exactly, for floats a, b > 0
ExactReferenceRatio(a, b) ==
    LET d == a.e - b.e
    IN  /\ a.m # 0 /\ b.m # 0 /\ a.s = 0 /\ b.s = 0
        /\ d \in -2..2
        /\ IF d >= 0 THEN RefDen * a.m * 2^d = RefNum * b.m
           ELSE RefDen * a.m = RefNum * b.m * 2^(-d)

\* | a / b - RefNum / RefDen | <= 2^-22 * RefNum / RefDen, for floats a, b > 0
ReferenceRatioWithinTolerance(a, b) ==
    LET d == a.e - b.e
        lhs == IF d >= 0 THEN RefDen * a.m * 2^d ELSE RefDen * a.m
        rhs == IF d >= 0 THEN RefNum * b.m ELSE RefNum * b.m * 2^(-d)
    IN  /\ a.m # 0 /\ b.m # 0 /\ a.s = 0 /\ b.s = 0
        /\ d \in -2..2
        /\ Abs(lhs - rhs) <= rhs \div 2^22

\* float a in units of 2^-20 pixel, rounded towards zero
Fixed20(a) ==
    LET k == a.e + 20
        mag == IF a.m = 0 THEN 0
               ELSE IF k >= 0 THEN a.m * 2^k
               ELSE IF k < -30 THEN 0
               ELSE a.m \div 2^(-k)
    IN  IF a.s = 1 THEN -mag ELSE mag

\* 2^-14 pixel in units of 2^-20 pixel
PixelTolerance == 2^6

\* | a - num / den | <= 2^-14
NearRational(a, num, den) ==
    Abs(den * Fixed20(a) - num * 2^20) <= den * PixelTolerance

\* | pos - (extent - size) / 2 | <= 2^-14
Centred(pos, extent, size) ==
    Abs(2 * Fixed20(pos) + Fixed20(size) - extent * 2^20) <= 2 * PixelTolerance

Letterboxed ==
    /\ drawable_size.x > 0 /\ drawable_size.y > 0
    /\ ~cfg.stretch_the_display_area

\* C9 as stated: with height > 0, width > 0 and stretch off, the viewport's
\* width divided by its height equals 960/544.
C9_AspectExact ==
    Letterboxed => ExactReferenceRatio(viewport_size.x, viewport_size.y)

\* C9, amended: with height > 0, width > 0 and stretch off, the viewport's
\* width divided by its height equals 960/544 up to float rounding (relative
\* error at most 2^-22); when the window is wider than the reference the
\* height is the drawable height, the width is height * 960/544, pos.y is 0
\* and pos.x is (drawable width - width)/2, and otherwise the width is the
\* drawable width, the height is width / (960/544), pos.x is 0 and pos.y is
\* (drawable height - height)/2, each computed value up to float rounding
\* (within 2^-14 pixel).
C9_AspectWithinRounding ==
    Letterboxed =>
        LET w == drawable_size.x
            h == drawable_size.y
        IN  /\ ReferenceRatioWithinTolerance(viewport_size.x, viewport_size.y)
            /\ IF w * DEFAULT_RES_HEIGHT > h * DEFAULT_RES_WIDTH
               THEN /\ HoldsInt(viewport_size.y, h)
                    /\ NearRational(viewport_size.x, h * RefNum, RefDen)
                    /\ HoldsInt(viewport_pos.y, 0)
                    /\ Centred(viewport_pos.x, w, viewport_size.x)
               ELSE /\ HoldsInt(viewport_size.x, w)
                    /\ NearRational(viewport_size.y, w * RefDen, RefNum)
                    /\ HoldsInt(viewport_pos.x, 0)
                    /\ Centred(viewport_pos.y, h, viewport_size.y)

\* C9 witness: a 32 x 18 drawable area, wider than the reference, has been
\* letterboxed
C9_Witness ==
    /\ Letterboxed
    /\ drawable_size = [x |-> 32, y |-> 18]
    /\ HoldsInt(viewport_size.y, 18)
    /\ viewport_pos.x.m # 0

\* C10: with drawable height <= 0 the viewport is position (0,0), size
\* (0,0), whatever the width and the stretch flag; with height > 0 and
\* stretch on it is position (0,0) and size equal to the drawable size.
C10_DegenerateAndStretch ==
    /\ drawable_size.y <= 0 =>
           /\ HoldsInt(viewport_pos.x, 0) /\ HoldsInt(viewport_pos.y, 0)
           /\ HoldsInt(viewport_size.x, 0) /\ HoldsInt(viewport_size.y, 0)
    /\ (drawable_size.y > 0 /\ cfg.stretch_the_display_area) =>
           /\ HoldsInt(viewport_pos.x, 0) /\ HoldsInt(viewport_pos.y, 0)
           /\ HoldsInt(viewport_size.x, drawable_size.x)
           /\ HoldsInt(viewport_size.y, drawable_size.y)

\* C10 witness: a stretched viewport over a non-empty drawable area
C10_Witness ==
    /\ cfg.stretch_the_display_area
    /\ drawable_size.x > 1 /\ drawable_size.y > 1
    /\ HoldsInt(viewport_size.x, drawable_size.x)

(***************************************************************************)
(* load_custom_driver (Android)                                            *)
(***************************************************************************)

\* how the log of calls spells a bool and a success
BoolStr(b) == IF b THEN "true" ELSE "false"
OkStr(b) == IF b THEN "ok" ELSE "fail"

\* the Android SDK version below which a temporary directory is handed over
LegacySdkLimit == 29

\* what the file system, the OS, adrenotools and SDL answer
DriverInputs ==
    [ dir_exists : BOOLEAN,          \* fs::exists(driver_path)
      manifest_exists : BOOLEAN,     \* fs::exists(driver_path / "driver_name.txt")
      sdk_version : {LegacySdkLimit - 1, LegacySdkLimit},
      handle_ok : BOOLEAN,           \* adrenotools_open_libvulkan returned non-null
      sdl_ok : BOOLEAN ]             \* SDL_Vulkan_LoadLibrary returned >= 0

NoDriverInput ==
    [ dir_exists |-> TRUE, manifest_exists |-> TRUE, sdk_version |-> LegacySdkLimit,
      handle_ok |-> TRUE, sdl_ok |-> TRUE ]

\* lines 75-113: what load_custom_driver does between the manifest check and
\* the driver-open primitive
DriverPrepare(d) ==
    << <<"fs::exists", "driver_path", "true">>,
       <<"fs::exists", "driver_name.txt", "true">>,
       <<"fs::ifstream", "driver_name.txt", "main_so_name">> >>
    \o (IF d.sdk_version < LegacySdkLimit
        THEN << <<"fs::create_directory", "tmp/", "">> >> ELSE <<>>)
    \o << <<"JNI", "nativeLibraryDir", "lib_dir">>,
          <<"fs::create_directory", "file_redirect", "">> >>

\* the temp_dir argument of adrenotools_open_libvulkan (lines 80-86)
TempDir(d) == IF d.sdk_version < LegacySdkLimit THEN "tmp/" ELSE "nullptr"

\* load_custom_driver that opens the driver without looking for the manifest
load_custom_driver_NoManifestCheck(driver_name, d) ==
    IF ~d.dir_exists
    THEN [ ok |-> FALSE,
           calls |-> << <<"fs::exists", "driver_path", "false">>,
                        <<"LOG_ERROR", "Could not find driver", driver_name>> >> ]
    ELSE [ ok |-> d.handle_ok /\ d.sdl_ok,
           calls |-> << <<"fs::exists", "driver_path", "true">>,
                        <<"fs::exists", "driver_name.txt", BoolStr(d.manifest_exists)>>,
                        <<"adrenotools_open_libvulkan", TempDir(d),
                          IF d.handle_ok THEN "handle" ELSE "null">> >>
                     \o (IF d.handle_ok
                         THEN << <<"SDL_Vulkan_LoadLibrary", "0xFEEDC0DE", OkStr(d.sdl_ok)>> >>
                         ELSE <<>>) ]

\* load_custom_driver(driver_name): its return value and the calls it makes
load_custom_driver(driver_name, d) ==
    IF ~d.dir_exists
    THEN [ ok |-> FALSE,
           calls |-> << <<"fs::exists", "driver_path", "false">>,
                        <<"LOG_ERROR", "Could not find driver", driver_name>> >> ]
    ELSE IF ~d.manifest_exists
    THEN [ ok |-> FALSE,
           calls |-> << <<"fs::exists", "driver_path", "true">>,
                        <<"fs::exists", "driver_name.txt", "false">>,
                        <<"LOG_ERROR", "Could not find driver driver_name.txt", "">> >> ]
    ELSE IF ~d.handle_ok
    THEN [ ok |-> FALSE,
           calls |-> DriverPrepare(d)
               \o << <<"adrenotools_open_libvulkan", TempDir(d), "null">>,
                     <<"LOG_ERROR", "Could not open handle for custom driver",
                       driver_name>> >> ]
    ELSE IF ~d.sdl_ok
    THEN [ ok |-> FALSE,
           calls |-> DriverPrepare(d)
               \o << <<"adrenotools_open_libvulkan", TempDir(d), "handle">>,
                     <<"SDL_Vulkan_LoadLibrary", "0xFEEDC0DE", "fail">>,
                     <<"LOG_ERROR", "Could not load custom diver", "">> >> ]
    ELSE [ ok |-> TRUE,
           calls |-> DriverPrepare(d)
               \o << <<"adrenotools_open_libvulkan", TempDir(d), "handle">>,
                     <<"SDL_Vulkan_LoadLibrary", "0xFEEDC0DE", "ok">> >> ]

(***************************************************************************)
(* init                                                                    *)
(***************************************************************************)

\* string_utils::toupper on the backend names a configuration holds
toupper(str) ==
    CASE str \in {"OpenGL", "opengl", "OPENGL"} -> "OPENGL"
      [] str \in {"Vulkan", "vulkan", "VULKAN"} -> "VULKAN"
      [] OTHER -> str

\* SeedPaths appending a separator whatever the last character is
SeedPaths_AlwaysAppend(st, c, roots) ==
    LET seeded == [st EXCEPT !.base_path = roots.base_path,
                             !.default_path = roots.pref_path,
                             !.log_path = roots.log_path,
                             !.config_path = roots.config_path,
                             !.cache_path = roots.cache_path,
                             !.shared_path = roots.shared_path,
                             !.static_assets_path = roots.static_assets_path]
    IN  IF c.pref_path = roots.pref_path \/ c.pref_path = <<>>
        THEN <<[seeded EXCEPT !.pref_path = roots.pref_path], c>>
        ELSE <<[seeded EXCEPT !.pref_path = Append(c.pref_path, "")],
               [c EXCEPT !.pref_path = Append(c.pref_path, "")]>>

\* lines 344-360: the paths copied into the state, and the preference path
\* reconciled with the configured one; <<state, cfg>>
SeedPaths(st, c, roots) ==
    LET seeded == [st EXCEPT !.base_path = roots.base_path,
                             !.default_path = roots.pref_path,
                             !.log_path = roots.log_path,
                             !.config_path = roots.config_path,
                             !.cache_path = roots.cache_path,
                             !.shared_path = roots.shared_path,
                             !.static_assets_path = roots.static_assets_path]
    IN  IF c.pref_path = roots.pref_path \/ c.pref_path = <<>>
        THEN <<[seeded EXCEPT !.pref_path = roots.pref_path], c>>
        ELSE LET normalised == IF Last(c.pref_path) # "" THEN Append(c.pref_path, "")
                               ELSE c.pref_path
             IN  <<[seeded EXCEPT !.pref_path = normalised],
                   [c EXCEPT !.pref_path = normalised]>>

\* SelectBackend without the Apple override
SelectBackend_NoAppleOverride(plat, c) ==
    IF toupper(c.current_config.backend_renderer) = "OPENGL"
    THEN <<"OpenGL", c, FALSE>>
    ELSE <<"Vulkan", c, FALSE>>

\* lines 378-387: the backend selected, the configuration after it and
\* whether config::serialize_config is called; <<backend, cfg, serialized>>
SelectBackend(plat, c) ==
    IF toupper(c.current_config.backend_renderer) = "OPENGL"
    THEN IF plat = "apple"
         THEN <<"Vulkan", [c EXCEPT !.backend_renderer = "Vulkan"], TRUE>>
         ELSE <<"OpenGL", c, FALSE>>
    ELSE <<"Vulkan", c, FALSE>>

\* config::serialize_config(cfg, cfg.config_path): the file it writes
serialize_config(c) ==
    [written |-> TRUE, backend_renderer |-> c.backend_renderer, pref_path |-> c.pref_path]

\* what the collaborators answer during init
InitInputs(plat, c) ==
    [ driver : IF plat = "android" /\ c.current_config.custom_driver_name # ""
               THEN DriverInputs ELSE {NoDriverInput},
      window_ok : BOOLEAN,
      renderer_ok : IF c.console THEN {TRUE} ELSE BOOLEAN,
      io_ok : BOOLEAN,
      discord_ok : BOOLEAN,
      \* what the write through the null state.renderer of line 476 does
      null_deref : IF plat = "android" /\ c.console THEN {"crash", "continue"}
                   ELSE {"none"} ]

\* InitPhases going on after a failed window creation
InitPhases_NoFailFast(plat, c, backend, in) ==
    LET l2 == << <<"SDL_CreateWindow", backend, OkStr(in.window_ok)>> >>
        l3 == IF c.console THEN l2
              ELSE l2 \o << <<"renderer::init", backend, OkStr(in.renderer_ok)>> >>
        l5 == l3 \o << <<"io::init", "", OkStr(in.io_ok)>>, <<"motion.init", "", "">> >>
    IN  [ result |-> IF in.window_ok /\ in.renderer_ok /\ in.io_ok THEN "true" ELSE "false",
          calls |-> l5, window |-> in.window_ok, renderer |-> ~c.console /\ in.renderer_ok ]

\* lines 434-492: the calls init makes from driver substitution on, and its
\* outcome: "true", "false", or "crash" when the write through the null
\* state.renderer of line 476 (Android, console mode) ends the process
InitPhases(plat, c, backend, in) ==
    LET drv == load_custom_driver(c.current_config.custom_driver_name, in.driver)
        driver_used == plat = "android" /\ c.current_config.custom_driver_name # ""
        l1 == IF driver_used
              THEN drv.calls \o << <<"load_custom_driver",
                                     c.current_config.custom_driver_name, OkStr(drv.ok)>> >>
              ELSE <<>>
        l2 == l1 \o << <<"SDL_CreateWindow", backend, OkStr(in.window_ok)>> >>
        l3 == IF c.console THEN l2
              ELSE l2 \o << <<"renderer::init", backend, OkStr(in.renderer_ok)>> >>
        l4 == l3 \o << <<"update_viewport", "", "">> >>
        l5 == (IF c.console THEN l3 ELSE l4) \o << <<"io::init", "", OkStr(in.io_ok)>> >>
        l6 == l5 \o << <<"motion.init", "", "">>,
                       <<"discordrpc::init", "", OkStr(in.discord_ok)>> >>
                 \o (IF in.discord_ok /\ c.discord_rich_presence
                     THEN << <<"discordrpc::update_presence", "", "">> >> ELSE <<>>)
    IN  IF driver_used /\ ~drv.ok
        THEN [result |-> "false", calls |-> l1, window |-> FALSE, renderer |-> FALSE]
        ELSE IF ~in.window_ok
        THEN [ result |-> "false", window |-> FALSE, renderer |-> FALSE,
               calls |-> l2 \o << <<"LOG_ERROR", "SDL failed to create window!", "">> >> ]
        ELSE IF ~c.console /\ ~in.renderer_ok
        THEN [ result |-> "false", window |-> TRUE, renderer |-> FALSE,
               calls |-> l3 \o << <<"error_dialog", backend, "">> >> ]
        ELSE IF plat = "android" /\ c.console /\ in.null_deref = "crash"
        THEN [result |-> "crash", calls |-> l3, window |-> TRUE, renderer |-> FALSE]
        ELSE IF ~in.io_ok
        THEN [ result |-> "false", window |-> TRUE, renderer |-> ~c.console,
               calls |-> l5 \o << <<"LOG_ERROR",
                                   "Failed to initialize file system for the emulator!",
                                   "">> >> ]
        ELSE [result |-> "true", calls |-> l6, window |-> TRUE, renderer |-> ~c.console]

\* init(state, root_paths)
init(in) ==
    /\ pc = "paths_done"
    /\ LET seeded == SeedPaths(state, cfg, root_paths)
           sel == SelectBackend(platform, seeded[2])
           backend == sel[1]
           c == sel[2]
           ph == InitPhases(platform, c, backend, in)
           win == [w |-> DEFAULT_RES_WIDTH, h |-> DEFAULT_RES_HEIGHT, open |-> TRUE]
           rend == [current_backend |-> backend, mapping_method |-> "none"]
           d == GetDrawableSize(backend, win)
           v == ComputeViewport(d.x, d.y, c.stretch_the_display_area)
       IN  /\ cfg' = c
           /\ persisted' = IF sel[3] THEN serialize_config(c) ELSE persisted
           /\ state' = [seeded[1] EXCEPT
                           !.backend_renderer = backend,
                           !.fullscreen = ((platform = "android") \/ c.fullscreen),
                           !.res_width_dpi_scale = DEFAULT_RES_WIDTH,
                           !.res_height_dpi_scale = DEFAULT_RES_HEIGHT]
           /\ calls' = calls
                  \o (IF sel[3] THEN << <<"config::serialize_config", c.backend_renderer, "">> >>
                      ELSE <<>>)
                  \o ph.calls \o << <<"return", "init", ph.result>> >>
           /\ window' = IF ph.window THEN win ELSE window
           /\ renderer' = IF ph.renderer THEN rend ELSE renderer
           /\ IF ph.renderer
              THEN drawable_size' = d /\ viewport_pos' = v.pos /\ viewport_size' = v.size
              ELSE UNCHANGED viewVars
           /\ pc' = CASE ph.result = "true" -> "init_ok"
                      [] ph.result = "false" -> "init_failed"
                      [] OTHER -> "init_crashed"
    /\ UNCHANGED <<pathVars, mem, kernel, audio, lifeVars>>

(***************************************************************************)
(* late_init                                                               *)
(***************************************************************************)

\* what the collaborators answer during late_init
LateInitInputs ==
    [ mapping_method : MappingMethods,   \* set by state.renderer->late_init
      mem_ok : BOOLEAN,
      audio_ok : BOOLEAN,
      ngs_ok : BOOLEAN,
      \* what the call through a null state.renderer at line 498 does
      null_deref : {"crash", "continue"} ]

\* need_page_table asking for a page table with the PageTable method only
need_page_table_OnlyPageTable(mapping_method) ==
    mapping_method = "PageTable"

\* line 500
need_page_table(mapping_method) ==
    mapping_method = "PageTable" \/ mapping_method = "NativeBuffer"

\* LateInitPhases initialising memory before asking the renderer
LateInitPhases_MemFirst(cpu_backend, audio_backend, in) ==
    [ result |-> in.mem_ok /\ in.ngs_ok, audio |-> in.mem_ok,
      calls |-> << <<"mem::init", BoolStr(need_page_table(in.mapping_method)),
                     OkStr(in.mem_ok)>>,
                   <<"renderer.late_init", "", in.mapping_method>> >>
                \o (IF in.mem_ok
                    THEN << <<"audio.init", audio_backend, OkStr(in.audio_ok)>>,
                            <<"ngs::init", "", OkStr(in.ngs_ok)>> >>
                    ELSE <<>>) ]

\* LateInitPhases treating an audio failure as fatal
LateInitPhases_AudioFatal(cpu_backend, audio_backend, in) ==
    LET l1 == << <<"renderer.late_init", "", in.mapping_method>>,
                 <<"mem::init", BoolStr(need_page_table(in.mapping_method)),
                   OkStr(in.mem_ok)>> >>
        l3 == l1 \o << <<"audio.init", audio_backend, OkStr(in.audio_ok)>> >>
        l4 == l3 \o << <<"ngs::init", "", OkStr(in.ngs_ok)>> >>
    IN  IF ~in.mem_ok THEN [result |-> FALSE, audio |-> FALSE, calls |-> l1]
        ELSE IF ~in.audio_ok THEN [result |-> FALSE, audio |-> TRUE, calls |-> l3]
        ELSE [result |-> in.ngs_ok, audio |-> TRUE, calls |-> l4]

\* lines 498-525 with a renderer: the calls late_init makes and its result
LateInitPhases(cpu_backend, audio_backend, in) ==
    LET l1 == << <<"renderer.late_init", "", in.mapping_method>>,
                 <<"mem::init", BoolStr(need_page_table(in.mapping_method)),
                   OkStr(in.mem_ok)>> >>
        l2 == l1 \o (IF need_page_table(in.mapping_method) /\ cpu_backend = "Unicorn"
                     THEN << <<"LOG_CRITICAL",
                               "Unicorn backend is not supported with a page table", "">> >>
                     ELSE <<>>)
        l3 == l2 \o << <<"audio.init", audio_backend, OkStr(in.audio_ok)>> >>
                 \o (IF in.audio_ok THEN <<>>
                     ELSE << <<"LOG_WARN",
                               "Failed to initialize audio! Audio will not work.", "">> >>)
        l4 == l3 \o << <<"ngs::init", "", OkStr(in.ngs_ok)>> >>
    IN  IF ~in.mem_ok
        THEN [ result |-> FALSE, audio |-> FALSE,
               calls |-> l1 \o << <<"LOG_ERROR",
                                   "Failed to initialize memory for emulator state!",
                                   "">> >> ]
        ELSE IF ~in.ngs_ok
        THEN [ result |-> FALSE, audio |-> TRUE,
               calls |-> l4 \o << <<"LOG_ERROR", "Failed to initialize ngs.", "">> >> ]
        ELSE [result |-> TRUE, audio |-> TRUE, calls |-> l4]

\* late_init(state).  Without a renderer (console mode) line 498 calls
\* through the null state.renderer: the process dies there, or goes on with
\* whatever mapping method it finds.
late_init(in) ==
    /\ pc = "init_ok"
    /\ IF renderer = NoRenderer /\ in.null_deref = "crash"
       THEN /\ calls' = calls \o << <<"return", "late_init", "crash">> >>
            /\ pc' = "late_crashed"
            /\ UNCHANGED <<renderer, mem, audio>>
       ELSE LET ph == LateInitPhases(kernel.cpu_backend, cfg.audio_backend, in)
            IN  /\ renderer' = [renderer EXCEPT !.mapping_method = in.mapping_method]
                /\ mem' = IF in.mem_ok
                          THEN [ initialized |-> TRUE,
                                 use_page_table |-> need_page_table(in.mapping_method) ]
                          ELSE mem
                /\ audio' = IF ph.audio
                            THEN [audio EXCEPT !.initialized = in.audio_ok,
                                               !.resume_thread = TRUE]
                            ELSE audio
                /\ calls' = calls \o ph.calls
                                \o << <<"return", "late_init", BoolStr(ph.result)>> >>
                /\ pc' = IF ph.result THEN "running" ELSE "late_failed"
    /\ UNCHANGED <<pathVars, cfg, window, viewVars, state, persisted, kernel, lifeVars>>

(***************************************************************************)
(* The bootstrap: init, then late_init                                     *)
(***************************************************************************)

\* the environment the bootstrap model resolves its root paths in
BootEnv(plat) ==
    [ HOME |-> IF plat = "linux" THEN HomeDir ELSE NULL,
      XDG_DATA_HOME |-> NULL, XDG_CONFIG_HOME |-> NULL, XDG_CACHE_HOME |-> NULL,
      XDG_DATA_DIRS |-> NULL_LIST, APPDIR |-> NULL,
      installed_in_pref |-> FALSE, portable |-> FALSE,
      base_markers |-> {}, data_home_markers |-> {}, data_dirs_with_app |-> {},
      appdir_assets |-> FALSE, config_yml |-> FALSE, ux0 |-> FALSE ]

\* a preference path the user has configured, with and without its separator
CustomPrefPaths == {<<"mnt", "vita">>, <<"mnt", "vita", "">>}

\* the configurations the bootstrap starts from
BootCfgs(plat) ==
    { [DefaultCfg EXCEPT !.console = con,
                         !.backend_renderer = glob,
                         !.pref_path = pref,
                         !.current_config = [backend_renderer |-> cur,
                                             custom_driver_name |-> drv]] :
        con \in BOOLEAN,
        glob \in {"Vulkan", "OpenGL"},
        cur \in {"Vulkan", "OpenGL", "opengl"},
        pref \in {<<>>, ResolvedRoots(plat, BootEnv(plat)).pref_path,
                  StripSep(ResolvedRoots(plat, BootEnv(plat)).pref_path)}
                 \cup CustomPrefPaths,
        drv \in IF plat = "android" THEN {"", "turnip"} ELSE {""} }

InitBoot ==
    /\ platform \in Platforms
    /\ env = BootEnv(platform)
    /\ root_paths = ResolvedRoots(platform, env)
    /\ created = SeqRange(DirsToCreate(root_paths))
    /\ pc = "paths_done"
    /\ cfg \in BootCfgs(platform)
    /\ renderer = NoRenderer
    /\ window = NoWindow
    /\ NoViewport
    /\ state = EmptyState
    /\ persisted = NoFile
    /\ mem = NoMem
    /\ kernel \in {[cpu_backend |-> b, threads |-> NoThreads, paused |-> FALSE] :
                      b \in CPUBackends}
    /\ audio = NoAudio
    /\ calls = <<>>
    /\ NoLifecycle

NextBoot ==
    \/ \E in \in InitInputs(platform, cfg) : init(in)
    \/ \E in \in LateInitInputs : late_init(in)

SpecBoot == InitBoot /\ [][NextBoot]_vars

(***************************************************************************)
(* Properties of the bootstrap                                             *)
(***************************************************************************)

\* the positions of the log at which op was called
Positions(op) == {i \in DOMAIN calls : calls[i][1] = op}

Called(op) == Positions(op) # {}

Logged(op, arg, res) == \E i \in DOMAIN calls : calls[i] = <<op, arg, res>>

\* the result logged for a call the bootstrap makes at most once
ResultOf(op) == calls[CHOOSE i \in Positions(op) : TRUE][3]

\* where the return of init is logged; 0 while init has not returned
InitReturn ==
    IF Positions("return") = {} THEN 0
    ELSE CHOOSE i \in Positions("return") : \A j \in Positions("return") : i <= j

\* where the return of late_init is logged; 0 while it has not returned
LateInitReturn ==
    IF \E i \in Positions("return") : calls[i][2] = "late_init"
    THEN CHOOSE i \in Positions("return") : calls[i][2] = "late_init"
    ELSE 0

\* C4: in every execution of the bootstrap the memory subsystem is never
\* initialised before the renderer's late_init has run and reported its
\* mapping method: every mem::init call lies in late_init, after a
\* renderer late_init whose reported mapping method decides its page-table
\* argument, and while init runs and after it has returned the memory is
\* still uninitialised.
C4_MemoryAfterRendererLateInit ==
    /\ \A i \in Positions("mem::init") :
          /\ InitReturn # 0 /\ i > InitReturn
          /\ \E j \in Positions("renderer.late_init") :
                /\ InitReturn < j /\ j < i
                /\ calls[j][3] \in MappingMethods
                /\ calls[i][2] = BoolStr(need_page_table(calls[j][3]))
    /\ mem.initialized =>
          /\ Called("mem::init")
          /\ renderer.mapping_method \in MappingMethods
          /\ mem.use_page_table = need_page_table(renderer.mapping_method)
    /\ pc \in {"paths_done", "init_ok", "init_failed", "init_crashed"} =>
          mem = NoMem /\ ~Called("mem::init")

\* late_init has initialised the memory with a page table the renderer asked for
C4_Witness ==
    /\ pc = "running"
    /\ mem.initialized /\ mem.use_page_table
    /\ renderer.mapping_method = "NativeBuffer"
    /\ \E j \in Positions("renderer.late_init"), i \in Positions("mem::init") : j < i

\* the phases of init, in the order the claim gives them
PhaseOps ==
    <<"load_custom_driver", "SDL_CreateWindow", "renderer::init", "io::init", "motion.init">>

IsPhase(entry) == \E k \in DOMAIN PhaseOps : PhaseOps[k] = entry[1]

PhaseRank(op) == CHOOSE k \in DOMAIN PhaseOps : PhaseOps[k] = op

\* the phases whose failure init looks at
FalliblePhases == {"load_custom_driver", "SDL_CreateWindow", "renderer::init", "io::init"}

\* calls that only report a failure
Diagnostics == {"LOG_ERROR", "error_dialog"}

\* the phases init has run, in the order it ran them
PhasesRun == SelectSeq(SubSeq(calls, 1, InitReturn), IsPhase)

\* the phases a successful init has to run under this configuration
PhasesDue ==
    {"SDL_CreateWindow", "io::init", "motion.init"}
    \cup (IF platform = "android" /\ cfg.current_config.custom_driver_name # ""
          THEN {"load_custom_driver"} ELSE {})
    \cup (IF cfg.console THEN {} ELSE {"renderer::init"})

\* C5: init runs its phases in the fixed order driver substitution (Android,
\* only with a custom driver name configured), window creation, renderer
\* early-init (only when not in console mode), emulated-filesystem init,
\* motion init; a failing driver substitution, window creation, renderer init
\* or filesystem init makes init return failure at once with no later phase
\* invoked, and init returns success only when none of them failed.
C5_InitPhaseOrderFailFast ==
    (InitReturn # 0 /\ calls[InitReturn][3] \in {"true", "false"}) =>
        LET ph == PhasesRun
            n == Len(ph)
            ran == {ph[i][1] : i \in 1..n}
            failed == \E i \in 1..n : ph[i][3] = "fail"
        IN  /\ \A i, j \in 1..n : i < j => PhaseRank(ph[i][1]) < PhaseRank(ph[j][1])
            /\ ran \subseteq PhasesDue
            /\ \A op \in ran : \A due \in PhasesDue :
                  PhaseRank(due) < PhaseRank(op) => due \in ran
            /\ \A i \in 1..n : ph[i][3] = "fail" =>
                  i = n /\ ph[i][1] \in FalliblePhases
            /\ \A i \in 1..(InitReturn - 1) :
                  (IsPhase(calls[i]) /\ calls[i][3] = "fail") =>
                      \A k \in (i + 1)..(InitReturn - 1) : calls[k][1] \in Diagnostics
            /\ failed => calls[InitReturn][3] = "false"
            /\ calls[InitReturn][3] = "true" => (~failed /\ ran = PhasesDue)
            /\ calls[InitReturn][3] = "false" => failed

\* the renderer failed to initialise after the driver and the window were
\* set up, and init returned failure without touching the filesystem
C5_Witness ==
    /\ pc = "init_failed"
    /\ platform = "android"
    /\ Called("load_custom_driver") /\ ResultOf("load_custom_driver") = "ok"
    /\ Called("SDL_CreateWindow") /\ ResultOf("SDL_CreateWindow") = "ok"
    /\ Called("renderer::init") /\ ResultOf("renderer::init") = "fail"
    /\ ~Called("io::init") /\ ~Called("motion.init")

\* C6: late_init returns success exactly when memory init succeeds and ngs
\* init succeeds: a memory init failure returns failure without initialising
\* audio or ngs, an audio init failure does not change the result and ngs init
\* still runs after it, an ngs init failure returns failure, and the
\* page-table-with-Unicorn combination is only logged.
C6_LateInitResult ==
    (LateInitReturn # 0 /\ calls[LateInitReturn][3] \in {"true", "false"}) =>
        LET success == calls[LateInitReturn][3] = "true"
            mem_ok == Called("mem::init") /\ ResultOf("mem::init") = "ok"
            ngs_ok == Called("ngs::init") /\ ResultOf("ngs::init") = "ok"
        IN  /\ Called("mem::init")
            /\ success <=> (mem_ok /\ ngs_ok)
            /\ (pc = "running") <=> success
            /\ ~mem_ok => (~Called("audio.init") /\ ~Called("ngs::init")
                           /\ ~audio.initialized /\ ~success)
            /\ mem_ok =>
                  /\ Called("audio.init") /\ Called("ngs::init")
                  /\ \A a \in Positions("audio.init"), g \in Positions("ngs::init") : a < g
                  /\ audio.initialized <=> ResultOf("audio.init") = "ok"
                  /\ Called("LOG_WARN") <=> ResultOf("audio.init") = "fail"
                  /\ Called("LOG_CRITICAL") <=>
                        (mem.use_page_table /\ kernel.cpu_backend = "Unicorn")
            /\ (Called("ngs::init") /\ ResultOf("ngs::init") = "fail") => ~success

\* late_init succeeded although audio failed and Unicorn met a page table
C6_Witness ==
    /\ pc = "running"
    /\ Called("audio.init") /\ ResultOf("audio.init") = "fail"
    /\ Called("LOG_CRITICAL")
    /\ ResultOf("ngs::init") = "ok"

\* C7: on Apple, when the configuration requests the OpenGL backend, init
\* selects the Vulkan backend, rewrites the configuration to name Vulkan and
\* persists it; on every other platform the OpenGL request is honoured, the
\* configuration keeps its backend and nothing is persisted.
C7_AppleOpenGLBecomesVulkan ==
    [][ (pc = "paths_done" /\ pc' # "paths_done"
         /\ toupper(cfg.current_config.backend_renderer) = "OPENGL") =>
            IF platform = "apple"
            THEN /\ state'.backend_renderer = "Vulkan"
                 /\ cfg'.backend_renderer = "Vulkan"
                 /\ persisted'.written /\ persisted'.backend_renderer = "Vulkan"
                 /\ Logged("config::serialize_config", "Vulkan", "")'
                 /\ Logged("SDL_CreateWindow", "Vulkan", "ok")'
                        \/ Logged("SDL_CreateWindow", "Vulkan", "fail")'
            ELSE /\ state'.backend_renderer = "OpenGL"
                 /\ cfg'.backend_renderer = cfg.backend_renderer
                 /\ persisted' = persisted
                 /\ ~Called("config::serialize_config")'
                 /\ ~Logged("SDL_CreateWindow", "Vulkan", "ok")'
                 /\ ~Logged("SDL_CreateWindow", "Vulkan", "fail")' ]_vars

\* on Apple an OpenGL request has been turned into Vulkan and written out
C7_Witness ==
    /\ platform = "apple"
    /\ pc = "init_ok"
    /\ toupper(cfg.current_config.backend_renderer) = "OPENGL"
    /\ state.backend_renderer = "Vulkan"
    /\ cfg.backend_renderer = "Vulkan"
    /\ persisted.written /\ persisted.backend_renderer = "Vulkan"

\* C8: load_custom_driver invokes the driver-open primitive only when the
\* driver directory and its driver_name.txt both exist, and hands a handle to
\* the windowing layer only when the primitive returned a non-null handle; a
\* missing directory, a missing manifest, a null handle or a rejected
\* handshake make it return failure, and it returns success only when all
\* four steps succeeded.
C8_DriverLoadGuards ==
    LET dir_ok == Logged("fs::exists", "driver_path", "true")
        manifest_ok == Logged("fs::exists", "driver_name.txt", "true")
        opened == Called("adrenotools_open_libvulkan")
        handle_ok == opened /\ ResultOf("adrenotools_open_libvulkan") = "handle"
        handed == Called("SDL_Vulkan_LoadLibrary")
        sdl_ok == handed /\ ResultOf("SDL_Vulkan_LoadLibrary") = "ok"
    IN  /\ opened => (dir_ok /\ manifest_ok)
        /\ handed => handle_ok
        /\ \A o \in Positions("adrenotools_open_libvulkan") :
              /\ \A e \in Positions("fs::exists") : e < o
              /\ \A l \in Positions("SDL_Vulkan_LoadLibrary") : o < l
        /\ Called("load_custom_driver") =>
              /\ platform = "android"
              /\ Called("fs::exists")
              /\ opened <=> (dir_ok /\ manifest_ok)
              /\ handed <=> handle_ok
              /\ (ResultOf("load_custom_driver") = "ok") <=>
                    (dir_ok /\ manifest_ok /\ handle_ok /\ sdl_ok)
              /\ ResultOf("load_custom_driver") = "fail" =>
                    (pc = "init_failed" /\ Called("LOG_ERROR")
                     /\ ~Called("SDL_CreateWindow"))

\* the manifest was missing: the driver was never opened and init failed
C8_Witness ==
    /\ Logged("fs::exists", "driver_path", "true")
    /\ Logged("fs::exists", "driver_name.txt", "false")
    /\ Logged("load_custom_driver", "turnip", "fail")
    /\ ~Called("adrenotools_open_libvulkan")

(***************************************************************************)
(* switch_state: the pause/resume fan-out                                  *)
(***************************************************************************)

\* the emulated threads of the running application
NumThreads == 2
Threads == 1..NumThreads

\* how many calls the history remembers
HistoryLen == 3

\* the history with one more call, the oldest forgotten
Push(h, call) ==
    IF Len(h) < HistoryLen THEN Append(h, call) ELSE Append(Tail(h), call)

\* KernelState::pause_threads: every runnable thread leaves the runnable state
pause_threads(k) ==
    [k EXCEPT !.paused = TRUE,
              !.threads = [t \in DOMAIN k.threads |->
                              IF k.threads[t] = "run" THEN "suspend" ELSE k.threads[t]]]

\* KernelState::resume_threads: the suspended threads go back to runnable and
\* any thread parked in a wait state is moved to runnable
resume_threads(k) ==
    [k EXCEPT !.paused = FALSE,
              !.threads = [t \in DOMAIN k.threads |->
                              IF k.threads[t] \in {"suspend", "wait"} THEN "run"
                              ELSE k.threads[t]]]

\* AudioState::switch_state(pause): the output stream is suspended or resumed
audio_switch_state(a, pause) == [a EXCEPT !.paused = pause]

\* gui::get_overlay_display_mask(cfg)
get_overlay_display_mask(c) == "overlay_mask"

\* lines 545-548 and 553-557: the Android display flags
SwitchDisplay(plat, c, d, pause) ==
    IF plat # "android" THEN d
    ELSE IF pause
    THEN [imgui_render |-> TRUE, controller_overlay |-> "hidden"]
    ELSE [ imgui_render |-> FALSE,
           controller_overlay |-> IF c.enable_gamepad_overlay
                                  THEN get_overlay_display_mask(c)
                                  ELSE d.controller_overlay ]

\* the threads that are runnable
Runnable(k) == {t \in DOMAIN k.threads : k.threads[t] = "run"}

\* switch_state that treats every call as a toggle of the pause state
switch_state_Toggle(pause) ==
    /\ pc = "running"
    /\ switching = NotSwitching
    /\ LET p == ~kernel.paused
       IN  /\ display' = SwitchDisplay(platform, cfg, display, p)
           /\ kernel' = IF p THEN pause_threads(kernel) ELSE resume_threads(kernel)
           /\ audio' = audio_switch_state(audio, p)
    /\ runnable_before' = IF pause
                          THEN (IF kernel.paused THEN runnable_before ELSE {})
                               \cup Runnable(kernel)
                          ELSE runnable_before
    /\ history' = Push(history, IF pause THEN "pause" ELSE "resume")
    /\ UNCHANGED <<pathVars, pc, cfg, renderer, window, viewVars,
                   state, persisted, mem, calls, switching, sync, switching_other>>

\* switch_state(emuenv, pause)
switch_state(pause) ==
    /\ pc = "running"
    /\ switching = NotSwitching
    /\ display' = SwitchDisplay(platform, cfg, display, pause)
    /\ kernel' = IF pause THEN pause_threads(kernel) ELSE resume_threads(kernel)
    /\ audio' = audio_switch_state(audio, pause)
    /\ runnable_before' = IF pause
                          THEN (IF kernel.paused THEN runnable_before ELSE {})
                               \cup Runnable(kernel)
                          ELSE runnable_before
    /\ history' = Push(history, IF pause THEN "pause" ELSE "resume")
    /\ UNCHANGED <<pathVars, pc, cfg, renderer, window, viewVars,
                   state, persisted, mem, calls, switching, sync, switching_other>>

\* lines 509-515: the audio subsystem calls resume_thread(thread_id)
resume_thread(thread_id) ==
    /\ pc = "running"
    /\ audio.resume_thread
    /\ kernel' = [kernel EXCEPT !.threads[thread_id] =
                     IF @ = "wait" THEN "run" ELSE @]
    /\ history' = Push(history, "resume_thread")
    /\ UNCHANGED <<pathVars, pc, cfg, renderer, window, viewVars,
                   state, persisted, mem, audio, calls, display, runnable_before,
                   switching, sync, switching_other>>

\* a running emulated thread parks itself, waiting for the audio port
thread_waits(thread_id) ==
    /\ pc = "running"
    /\ kernel.threads[thread_id] = "run"
    /\ kernel' = [kernel EXCEPT !.threads[thread_id] = "wait"]
    /\ history' = Push(history, "thread_waits")
    /\ UNCHANGED <<pathVars, pc, cfg, renderer, window, viewVars,
                   state, persisted, mem, audio, calls, display, runnable_before,
                   switching, sync, switching_other>>

\* the application is running: init and late_init have succeeded
InitSwitch ==
    /\ platform \in Platforms
    /\ env = BootEnv(platform)
    /\ root_paths = ResolvedRoots(platform, env)
    /\ created = SeqRange(DirsToCreate(root_paths))
    /\ pc = "running"
    /\ cfg \in {[DefaultCfg EXCEPT !.enable_gamepad_overlay = o] : o \in BOOLEAN}
    /\ renderer = [current_backend |-> "Vulkan", mapping_method |-> "Direct"]
    /\ window = [w |-> DEFAULT_RES_WIDTH, h |-> DEFAULT_RES_HEIGHT, open |-> TRUE]
    /\ NoViewport
    /\ state = EmptyState
    /\ persisted = NoFile
    /\ mem = [initialized |-> TRUE, use_page_table |-> FALSE]
    /\ kernel \in {[cpu_backend |-> "Dynarmic", threads |-> th, paused |-> FALSE] :
                      th \in [Threads -> {"dormant", "run", "wait"}]}
    /\ audio = [initialized |-> TRUE, resume_thread |-> TRUE, paused |-> FALSE]
    /\ calls = <<>>
    /\ display = [imgui_render |-> FALSE, controller_overlay |-> "hidden"]
    /\ history = <<>>
    /\ runnable_before = {}
    /\ switching = NotSwitching
    /\ sync = NoSync
    /\ switching_other = NoOtherSource

NextSwitch ==
    \/ \E pause \in BOOLEAN : switch_state(pause)
    \/ \E thread_id \in Threads : resume_thread(thread_id)
    \/ \E thread_id \in Threads : thread_waits(thread_id)

SpecSwitch == InitSwitch /\ [][NextSwitch]_vars

(***************************************************************************)
(* Properties of switch_state                                              *)
(***************************************************************************)

\* the step is a call of switch_state(pause = TRUE), of switch_state(FALSE)
PauseStep == history' = Push(history, "pause")
ResumeStep == history' = Push(history, "resume")

\* C3: calling switch_state(pause = TRUE) twice in a row leaves the emulated
\* threads and the audio stream in the same paused state as calling it once
\* (no thread runnable, the stream paused), and a following
\* switch_state(pause = FALSE) puts every thread that was runnable before the
\* pause back to runnable and puts the audio stream back to running.
C3_PauseIdempotentResumeRestores ==
    [][ /\ PauseStep =>
              /\ Runnable(kernel') = {}
              /\ kernel'.paused /\ audio'.paused
        /\ (PauseStep /\ history # <<>> /\ Last(history) = "pause") =>
              /\ kernel' = kernel
              /\ audio' = audio
              /\ display' = display
        /\ ResumeStep =>
              /\ kernel.paused => runnable_before \subseteq Runnable(kernel')
              /\ ~kernel'.paused /\ ~audio'.paused ]_vars

\* two pauses in a row, then a resume that made the paused threads runnable
C3_Witness ==
    /\ history = <<"pause", "pause", "resume">>
    /\ runnable_before # {}
    /\ runnable_before \subseteq Runnable(kernel)
    /\ ~audio.paused /\ ~kernel.paused

(***************************************************************************)
(* destroy                                                                 *)
(***************************************************************************)

\* whether each step of the teardown does its work; none of them reports to
\* destroy, which looks at no result
DestroyInputs ==
    [imgui_ok : BOOLEAN, discord_ok : BOOLEAN, server_ok : BOOLEAN, serialize_ok : BOOLEAN]

\* DestroySteps giving up at the first step that fails
DestroySteps_StopAtFailure(c, in) ==
    LET l1 == << <<"ImGui_ImplSdl_Shutdown", "", OkStr(in.imgui_ok)>> >>
        l2 == l1 \o << <<"discordrpc::shutdown", "", OkStr(in.discord_ok)>> >>
        l3 == l2 \o (IF c.gdbstub
                     THEN << <<"server_close", "", OkStr(in.server_ok)>> >> ELSE <<>>)
        l4 == l3 \o (IF c.overwrite_config
                     THEN << <<"config::serialize_config", c.backend_renderer,
                               OkStr(in.serialize_ok)>> >>
                     ELSE <<>>)
    IN  IF ~in.imgui_ok THEN l1
        ELSE IF ~in.discord_ok THEN l2
        ELSE IF c.gdbstub /\ ~in.server_ok THEN l3
        ELSE l4

\* lines 529-540: the calls destroy makes
DestroySteps(c, in) ==
    << <<"ImGui_ImplSdl_Shutdown", "", OkStr(in.imgui_ok)>>,
       <<"discordrpc::shutdown", "", OkStr(in.discord_ok)>> >>
    \o (IF c.gdbstub THEN << <<"server_close", "", OkStr(in.server_ok)>> >> ELSE <<>>)
    \o (IF c.overwrite_config
        THEN << <<"config::serialize_config", c.backend_renderer,
                  OkStr(in.serialize_ok)>> >>
        ELSE <<>>)

\* destroy(emuenv, imgui)
destroy(in) ==
    /\ pc = "running"
    /\ calls' = calls \o DestroySteps(cfg, in) \o << <<"return", "destroy", "">> >>
    /\ persisted' = IF cfg.overwrite_config /\ in.serialize_ok
                    THEN serialize_config(cfg) ELSE persisted
    /\ pc' = "destroyed"
    /\ UNCHANGED <<pathVars, cfg, renderer, window, viewVars, state, mem, kernel, audio,
                   lifeVars>>

\* the application is running, with any teardown-relevant configuration
InitDestroy ==
    /\ platform \in Platforms
    /\ env = BootEnv(platform)
    /\ root_paths = ResolvedRoots(platform, env)
    /\ created = SeqRange(DirsToCreate(root_paths))
    /\ pc = "running"
    /\ cfg \in {[DefaultCfg EXCEPT !.gdbstub = g, !.overwrite_config = o,
                                   !.backend_renderer = b] :
                   g \in BOOLEAN, o \in BOOLEAN, b \in Backends}
    /\ renderer = [current_backend |-> "Vulkan", mapping_method |-> "Direct"]
    /\ window = [w |-> DEFAULT_RES_WIDTH, h |-> DEFAULT_RES_HEIGHT, open |-> TRUE]
    /\ NoViewport
    /\ state = EmptyState
    /\ persisted = NoFile
    /\ mem = [initialized |-> TRUE, use_page_table |-> FALSE]
    /\ kernel = [cpu_backend |-> "Dynarmic", threads |-> NoThreads, paused |-> FALSE]
    /\ audio = [initialized |-> TRUE, resume_thread |-> TRUE, paused |-> FALSE]
    /\ calls = <<>>
    /\ NoLifecycle

NextDestroy == \E in \in DestroyInputs : destroy(in)

SpecDestroy == InitDestroy /\ [][NextDestroy]_vars

(***************************************************************************)
(* Properties of destroy                                                   *)
(***************************************************************************)

\* C11: in destroy a failure of any one step (UI-overlay shutdown,
\* rich-presence shutdown, debug-server close, configuration serialisation)
\* does not prevent the steps after it from running: in every teardown every
\* step whose condition holds (debug server configured, overwrite_config on)
\* has been attempted when destroy returns, in the order of the source,
\* whatever the steps before it did.
C11_TeardownBestEffort ==
    pc = "destroyed" =>
        /\ Called("ImGui_ImplSdl_Shutdown")
        /\ Called("discordrpc::shutdown")
        /\ Called("server_close") <=> cfg.gdbstub
        /\ Called("config::serialize_config") <=> cfg.overwrite_config
        /\ \A i \in Positions("ImGui_ImplSdl_Shutdown") :
              \A j \in Positions("discordrpc::shutdown") : i < j
        /\ \A i \in Positions("discordrpc::shutdown") :
              \A j \in Positions("server_close") \cup Positions("config::serialize_config") :
                  i < j
        /\ \A i \in Positions("server_close") :
              \A j \in Positions("config::serialize_config") : i < j
        /\ persisted.written <=>
              Logged("config::serialize_config", cfg.backend_renderer, "ok")

\* the overlay shutdown and the debug-server close failed, and the
\* configuration was still written
C11_Witness ==
    /\ pc = "destroyed"
    /\ Logged("ImGui_ImplSdl_Shutdown", "", "fail")
    /\ Logged("server_close", "", "fail")
    /\ persisted.written

(***************************************************************************)
(* switch_state, one statement at a time, as a concurrent reader sees it   *)
(***************************************************************************)

\* SwitchOrder with the audio stream switched before the threads
SwitchOrder_AudioFirst(plat) ==
    IF plat = "android" THEN <<"overlay", "audio", "threads">>
    ELSE <<"audio", "threads">>

\* SwitchOrder without the audio stream's switch of line 562
SwitchOrder_NoAudio(plat) ==
    IF plat = "android" THEN <<"overlay", "threads">>
    ELSE <<"threads">>

\* lines 544-562: the effects of switch_state in the order of its statements
SwitchOrder(plat) ==
    IF plat = "android" THEN <<"overlay", "threads", "audio">>
    ELSE <<"threads", "audio">>

\* the controlling thread enters switch_state(emuenv, pause)
switch_state_call(pause) ==
    /\ pc = "running"
    /\ switching = NotSwitching
    /\ switching' = [step |-> 1, pause |-> pause]
    /\ runnable_before' = IF pause
                          THEN (IF kernel.paused THEN runnable_before ELSE {})
                               \cup Runnable(kernel)
                          ELSE runnable_before
    /\ history' = Push(history, IF pause THEN "pause" ELSE "resume")
    /\ switching_other' = [switching_other EXCEPT !.overlapped = switching_other.step > 0]
    /\ UNCHANGED <<pathVars, pc, cfg, renderer, window, viewVars,
                   state, persisted, mem, kernel, audio, calls, display, sync>>

\* the controlling thread executes the next statement of switch_state
switch_state_step ==
    /\ pc = "running"
    /\ switching.step > 0
    /\ LET order == SwitchOrder(platform)
           effect == order[switching.step]
           pause == switching.pause
       IN  /\ display' = IF effect = "overlay"
                         THEN SwitchDisplay(platform, cfg, display, pause) ELSE display
           /\ kernel' = IF effect = "threads"
                        THEN (IF pause THEN pause_threads(kernel)
                              ELSE resume_threads(kernel))
                        ELSE kernel
           /\ audio' = IF effect = "audio" THEN audio_switch_state(audio, pause)
                       ELSE audio
           /\ switching' = IF switching.step = Len(order) THEN NotSwitching
                           ELSE [switching EXCEPT !.step = @ + 1]
    /\ UNCHANGED <<pathVars, pc, cfg, renderer, window, viewVars,
                   state, persisted, mem, calls, history, runnable_before, sync,
                   switching_other>>

NextSwitchSteps ==
    \/ \E pause \in BOOLEAN : switch_state_call(pause)
    \/ switch_state_step
    \/ \E thread_id \in Threads : resume_thread(thread_id)
    \/ \E thread_id \in Threads : thread_waits(thread_id)

SpecSwitchSteps == InitSwitch /\ [][NextSwitchSteps]_vars

\* C12: in every call of switch_state, for pause and for resume, the audio
\* stream is switched after the kernel's thread-state transition and the
\* overlay toggle does not wait for it (it comes first on Android and does not
\* exist elsewhere); so at no moment of a call is the audio stream already in
\* the state asked for while the kernel's threads are still in the other, and
\* between calls the two agree.
C12_AudioAfterThreads ==
    [][ /\ audio' # audio =>
              /\ switching.step > 0
              /\ kernel' = kernel /\ display' = display
              /\ kernel.paused = switching.pause
              /\ switching' = NotSwitching
        /\ kernel'.paused # kernel.paused =>
              /\ switching.step > 0
              /\ audio' = audio /\ display' = display
              /\ switching'.step > 0
        /\ display' # display =>
              /\ switching.step = 1 /\ platform = "android"
              /\ kernel' = kernel /\ audio' = audio
        /\ switching'.step > 0 =>
              (audio'.paused = switching'.pause => kernel'.paused = switching'.pause)
        /\ switching'.step = 0 => audio'.paused = kernel'.paused ]_vars

\* a reader looks in the middle of a pause: the threads are paused and the
\* audio stream is still running
C12_Witness ==
    /\ switching.step > 0 /\ switching.pause
    /\ kernel.paused /\ Runnable(kernel) = {}
    /\ ~audio.paused
    /\ runnable_before # {}

(***************************************************************************)
(* Properties of init_paths on Linux, and of its directory creation        *)
(***************************************************************************)

\* init_paths has resolved the roots on Linux through the XDG block
LinuxXdgResolved == Resolved /\ platform = "linux" /\ ~PortableActive

\* dir/Vita3K/
AppDirOf(dir) == Append(Append(StripSep(dir), app_name), "")

\* APPDIR names a directory with bundled assets
AppDirBundle ==
    /\ env.APPDIR # NULL
    /\ exists(platform, env, SlashAll(env.APPDIR, <<"usr", "share", "Vita3K">>))

\* C13 as stated: on Linux without a portable directory a set XDG variable
\* gives the path of its roles (XDG_CONFIG_HOME: config; XDG_CACHE_HOME: cache
\* and log; XDG_DATA_HOME: static assets and shared) for every setting of the
\* other variables.
C13_XdgWinsOverHome ==
    LinuxXdgResolved =>
        /\ env.XDG_CONFIG_HOME # NULL =>
              root_paths.config_path = AppDirOf(env.XDG_CONFIG_HOME)
        /\ env.XDG_CACHE_HOME # NULL =>
              /\ root_paths.cache_path = AppDirOf(env.XDG_CACHE_HOME)
              /\ root_paths.log_path = AppDirOf(env.XDG_CACHE_HOME)
        /\ env.XDG_DATA_HOME # NULL =>
              /\ root_paths.static_assets_path = AppDirOf(env.XDG_DATA_HOME)
              /\ root_paths.shared_path = AppDirOf(env.XDG_DATA_HOME)

\* C13, amended: a set XDG_CONFIG_HOME gives the config path and a set
\* XDG_CACHE_HOME the cache and log paths, whatever the other variables are;
\* a set XDG_DATA_HOME gives the shared path when XDG_DATA_DIRS is unset, and
\* the static-assets path when moreover XDG_DATA_HOME/Vita3K holds data, lang
\* and shaders-builtin and APPDIR names no bundled assets.  In each case the
\* path is not the HOME-derived one.
C13_XdgWinsWhereConsulted ==
    LinuxXdgResolved =>
        /\ env.XDG_CONFIG_HOME # NULL =>
              /\ root_paths.config_path = AppDirOf(env.XDG_CONFIG_HOME)
              /\ env.HOME # NULL =>
                    root_paths.config_path # AppDirOf(Append(env.HOME, ".config"))
        /\ env.XDG_CACHE_HOME # NULL =>
              /\ root_paths.cache_path = AppDirOf(env.XDG_CACHE_HOME)
              /\ root_paths.log_path = AppDirOf(env.XDG_CACHE_HOME)
              /\ env.HOME # NULL =>
                    root_paths.cache_path # AppDirOf(Append(env.HOME, ".cache"))
        /\ (env.XDG_DATA_HOME # NULL /\ env.XDG_DATA_DIRS = NULL_LIST) =>
              /\ root_paths.shared_path = AppDirOf(env.XDG_DATA_HOME)
              /\ (HasAssets(platform, env, Slash(env.XDG_DATA_HOME, app_name))
                  /\ ~AppDirBundle) =>
                    root_paths.static_assets_path = AppDirOf(env.XDG_DATA_HOME)
              /\ env.HOME # NULL =>
                    root_paths.shared_path
                        # AppDirOf(env.HOME \o <<".local", "share">>)

\* every XDG variable and HOME are set, XDG_DATA_DIRS is not, and the data
\* home holds the assets
C13_Witness ==
    /\ pc = "paths_done" /\ LinuxXdgResolved
    /\ env.HOME # NULL /\ env.XDG_CONFIG_HOME # NULL /\ env.XDG_CACHE_HOME # NULL
    /\ env.XDG_DATA_HOME # NULL /\ env.XDG_DATA_DIRS = NULL_LIST
    /\ root_paths.static_assets_path = AppDirOf(env.XDG_DATA_HOME)
    /\ root_paths.shared_path = AppDirOf(env.XDG_DATA_HOME)
    /\ root_paths.config_path = AppDirOf(env.XDG_CONFIG_HOME)

\* a fs::create_directories call of init_paths failed
CreateFailed ==
    \E i \in Positions("fs::create_directories") : calls[i][3] = "throw"

\* C14 as stated: a failure to create the config, cache, shaderlog or
\* texturelog directory is not fatal: init_paths still completes with all the
\* resolved roots set, the remaining directories are attempted, and the
\* bootstrap can go on to init.
C14_CreateFailureNonFatal ==
    CreateFailed =>
        /\ pc = "paths_done"
        /\ root_paths = ResolvedRoots(platform, env)
        /\ \A k \in DOMAIN DirNames :
              \E i \in Positions("fs::create_directories") : calls[i][2] = DirNames[k]

\* the entries of XDG_DATA_DIRS that hold an application-named subdirectory
MatchingEntries ==
    IF env.XDG_DATA_DIRS = NULL_LIST THEN {}
    ELSE {k \in DOMAIN env.XDG_DATA_DIRS :
             exists(platform, env, Slash(env.XDG_DATA_DIRS[k], app_name))}

\* C16: on Linux without a portable directory the first entry of
\* XDG_DATA_DIRS, in list order, that holds an application-named subdirectory
\* gives the shared path and the static-assets path, later matching entries
\* being ignored; except that an APPDIR with usr/share/Vita3K gives the
\* static-assets path whatever the other variables are.
C16_FirstDataDirWins ==
    LinuxXdgResolved =>
        /\ MatchingEntries # {} =>
              LET first == CHOOSE k \in MatchingEntries : \A j \in MatchingEntries : k <= j
                  dir == AppDirOf(env.XDG_DATA_DIRS[first])
              IN  /\ root_paths.shared_path = dir
                  /\ ~AppDirBundle => root_paths.static_assets_path = dir
        /\ AppDirBundle =>
              root_paths.static_assets_path = SlashAll(env.APPDIR, <<"usr", "share", "Vita3K">>)

\* two different entries of XDG_DATA_DIRS match and the first one was taken
C16_Witness ==
    /\ pc = "paths_done" /\ LinuxXdgResolved
    /\ \E j, k \in MatchingEntries :
          /\ j < k /\ env.XDG_DATA_DIRS[j] # env.XDG_DATA_DIRS[k]
          /\ \A i \in MatchingEntries : j <= i
          /\ root_paths.shared_path = AppDirOf(env.XDG_DATA_DIRS[j])
          /\ root_paths.static_assets_path = AppDirOf(env.XDG_DATA_DIRS[j])
    /\ env.XDG_DATA_HOME # NULL /\ env.HOME # NULL

(***************************************************************************)
(* The audio resume callback under the per-thread mutex                    *)
(***************************************************************************)

\* who works on the threads' status: the audio subsystem through the callback
\* of late_init, the kernel in pause_threads and resume_threads, and an
\* emulated thread parking itself
Actors == {"audio", "kernel", "guest"}
Peers == Actors \ {"audio"}

IdleActor == [pc |-> "idle", tid |-> 0, seen |-> "none", mode |-> "none"]

\* what each peer does to a thread's status
PeerModes(a) == IF a = "kernel" THEN {"pause", "resume"} ELSE {"park"}

\* a std::lock_guard that does not wait for the mutex
CallbackCanLock_NoWait(m, thread_id) == TRUE

\* line 511: std::lock_guard<std::mutex> lock(thread->mutex) goes on only
\* once the mutex is free
CallbackCanLock(m, thread_id) == m[thread_id] = "free"

\* lines 512-514: the status the callback leaves, given the one it read
CallbackTransition(status) == IF status = "wait" THEN "run" ELSE status

\* a peer takes the thread's mutex before it reads or writes the status
PeerCanLock(m, thread_id) == m[thread_id] = "free"

\* the status a peer leaves, given the one it read
PeerTransition(mode, status) ==
    CASE mode = "pause" /\ status = "run" -> "suspend"
      [] mode = "resume" /\ status \in {"suspend", "wait"} -> "run"
      [] mode = "park" /\ status = "run" -> "wait"
      [] OTHER -> status

\* everything but the threads' status and the mutexes
syncFrame ==
    <<pathVars, pc, cfg, renderer, window, viewVars, state, persisted, mem, audio,
      calls, display, history, runnable_before, switching, switching_other>>

\* lines 510-511: resume_thread(thread_id) finds the thread and locks its mutex
resume_thread_lock(thread_id) ==
    /\ pc = "running" /\ audio.resume_thread
    /\ sync.actor["audio"].pc = "idle"
    /\ CallbackCanLock(sync.mutex, thread_id)
    /\ sync' = [sync EXCEPT !.mutex[thread_id] = "audio",
                            !.actor["audio"] = [IdleActor EXCEPT !.pc = "locked",
                                                                 !.tid = thread_id]]
    /\ UNCHANGED <<syncFrame, kernel>>

\* line 512: it reads thread->status
resume_thread_read ==
    /\ sync.actor["audio"].pc = "locked"
    /\ sync' = [sync EXCEPT !.actor["audio"].pc = "read",
                            !.actor["audio"].seen = kernel.threads[sync.actor["audio"].tid]]
    /\ UNCHANGED <<syncFrame, kernel>>

\* line 513: thread->update_status(ThreadStatus::run), if it read wait
resume_thread_write ==
    /\ sync.actor["audio"].pc = "read"
    /\ LET a == sync.actor["audio"]
       IN  kernel' = IF CallbackTransition(a.seen) # a.seen
                     THEN [kernel EXCEPT !.threads[a.tid] = CallbackTransition(a.seen)]
                     ELSE kernel
    /\ sync' = [sync EXCEPT !.actor["audio"].pc = "written"]
    /\ UNCHANGED syncFrame

\* line 515: the lock_guard goes out of scope
resume_thread_unlock ==
    /\ sync.actor["audio"].pc = "written"
    /\ sync' = [sync EXCEPT !.mutex[sync.actor["audio"].tid] = "free",
                            !.actor["audio"] = IdleActor]
    /\ UNCHANGED <<syncFrame, kernel>>

\* a peer locks a thread's mutex
peer_lock(a, thread_id, mode) ==
    /\ pc = "running"
    /\ sync.actor[a].pc = "idle"
    /\ PeerCanLock(sync.mutex, thread_id)
    /\ sync' = [sync EXCEPT !.mutex[thread_id] = a,
                            !.actor[a] = [IdleActor EXCEPT !.pc = "locked",
                                                           !.tid = thread_id,
                                                           !.mode = mode]]
    /\ UNCHANGED <<syncFrame, kernel>>

peer_read(a) ==
    /\ sync.actor[a].pc = "locked"
    /\ sync' = [sync EXCEPT !.actor[a].pc = "read",
                            !.actor[a].seen = kernel.threads[sync.actor[a].tid]]
    /\ UNCHANGED <<syncFrame, kernel>>

peer_write(a) ==
    /\ sync.actor[a].pc = "read"
    /\ LET r == sync.actor[a]
       IN  kernel' = IF PeerTransition(r.mode, r.seen) # r.seen
                     THEN [kernel EXCEPT !.threads[r.tid] = PeerTransition(r.mode, r.seen)]
                     ELSE kernel
    /\ sync' = [sync EXCEPT !.actor[a].pc = "written"]
    /\ UNCHANGED syncFrame

peer_unlock(a) ==
    /\ sync.actor[a].pc = "written"
    /\ sync' = [sync EXCEPT !.mutex[sync.actor[a].tid] = "free",
                            !.actor[a] = IdleActor]
    /\ UNCHANGED <<syncFrame, kernel>>

\* the application is running and nobody holds a thread's mutex
InitMutex ==
    /\ platform \in {"android", "linux"}
    /\ env = BootEnv(platform)
    /\ root_paths = ResolvedRoots(platform, env)
    /\ created = SeqRange(DirsToCreate(root_paths))
    /\ pc = "running"
    /\ cfg = DefaultCfg
    /\ renderer = [current_backend |-> "Vulkan", mapping_method |-> "Direct"]
    /\ window = [w |-> DEFAULT_RES_WIDTH, h |-> DEFAULT_RES_HEIGHT, open |-> TRUE]
    /\ NoViewport
    /\ state = EmptyState
    /\ persisted = NoFile
    /\ mem = [initialized |-> TRUE, use_page_table |-> FALSE]
    /\ kernel \in {[cpu_backend |-> "Dynarmic", threads |-> th, paused |-> FALSE] :
                      th \in [Threads -> {"dormant", "run", "wait"}]}
    /\ audio = [initialized |-> TRUE, resume_thread |-> TRUE, paused |-> FALSE]
    /\ calls = <<>>
    /\ display = [imgui_render |-> FALSE, controller_overlay |-> "hidden"]
    /\ history = <<>>
    /\ runnable_before = {}
    /\ switching = NotSwitching
    /\ switching_other = NoOtherSource
    /\ sync = [ mutex |-> [t \in Threads |-> "free"],
                actor |-> [a \in Actors |-> IdleActor] ]

NextMutex ==
    \/ \E thread_id \in Threads : resume_thread_lock(thread_id)
    \/ resume_thread_read
    \/ resume_thread_write
    \/ resume_thread_unlock
    \/ \E a \in Peers, thread_id \in Threads : \E mode \in PeerModes(a) :
          peer_lock(a, thread_id, mode)
    \/ \E a \in Peers : peer_read(a)
    \/ \E a \in Peers : peer_write(a)
    \/ \E a \in Peers : peer_unlock(a)

SpecMutex == InitMutex /\ [][NextMutex]_vars

\* the actor is between taking and releasing the mutex of thread t
Holding(a, t) == sync.actor[a].pc # "idle" /\ sync.actor[a].tid = t

\* C15: the audio resume callback holds the target thread's mutex from before
\* it reads the status until after its write, changes the status only from
\* wait to run and that of no other thread, and releases the mutex right
\* after; what it read is still the thread's status when it writes, and no two
\* actors are at work on the status of one thread at the same time.
C15_CallbackUnderMutex ==
    [][ LET cb == sync.actor["audio"]
            cb2 == sync'.actor["audio"]
        IN  /\ \A t \in Threads :
                  /\ Cardinality({a \in Actors : Holding(a, t)'}) <= 1
                  /\ \A a \in Actors : Holding(a, t)' => sync'.mutex[t] = a
            /\ cb2.pc = "read" => kernel'.threads[cb2.tid] = cb2.seen
            /\ (cb.pc = "read" /\ cb2.pc = "written") =>
                  /\ \A t \in Threads \ {cb.tid} : kernel'.threads[t] = kernel.threads[t]
                  /\ kernel'.threads[cb.tid] # kernel.threads[cb.tid] =>
                        (kernel.threads[cb.tid] = "wait" /\ kernel'.threads[cb.tid] = "run")
                  /\ kernel.threads[cb.tid] # "wait" =>
                        kernel'.threads[cb.tid] = kernel.threads[cb.tid]
            /\ (cb.pc = "written" /\ cb2 # cb) =>
                  (cb2 = IdleActor /\ sync'.mutex[cb.tid] = "free" /\ kernel' = kernel)
            /\ (cb.pc \in {"idle", "locked"} /\ cb2 # cb) => kernel' = kernel ]_vars

\* the callback has woken a waiting thread and still holds its mutex, while a
\* peer works on another thread
C15_Witness ==
    /\ sync.actor["audio"].pc = "written"
    /\ sync.actor["audio"].seen = "wait"
    /\ kernel.threads[sync.actor["audio"].tid] = "run"
    /\ sync.mutex[sync.actor["audio"].tid] = "audio"
    /\ \E a \in Peers : sync.actor[a].pc = "read"

(***************************************************************************)
(* More properties of the bootstrap                                        *)
(***************************************************************************)

\* the step is a run of init
InitStep == pc = "paths_done" /\ pc' # "paths_done"

\* C17: in init's path seeding, a configured preference path that is empty or
\* equal to the resolved default leaves the configured value as it is and
\* makes the resolved default the effective preference path; any other
\* configured value gets one trailing separator if it has none and becomes
\* the effective preference path.  Seeding the resulting state again adds no
\* separator and gives the same effective preference path.
C17_PrefPathSeeding ==
    [][ InitStep =>
            LET default == root_paths.pref_path
                again == SeedPaths(state', cfg', root_paths')
            IN  /\ state'.default_path = default
                /\ (cfg.pref_path = <<>> \/ cfg.pref_path = default) =>
                      /\ state'.pref_path = default
                      /\ cfg'.pref_path = cfg.pref_path
                /\ (cfg.pref_path # <<>> /\ cfg.pref_path # default) =>
                      /\ cfg'.pref_path = IF Last(cfg.pref_path) = "" THEN cfg.pref_path
                                          ELSE cfg.pref_path \o <<"">>
                      /\ state'.pref_path = cfg'.pref_path
                      /\ StripSep(cfg'.pref_path) = StripSep(cfg.pref_path)
                /\ again[1].pref_path = state'.pref_path
                /\ again[2].pref_path = cfg'.pref_path ]_vars

\* init has run with a custom preference path, which now ends in a separator
\* and differs from the resolved default
C17_Witness ==
    /\ pc = "init_ok"
    /\ cfg.pref_path = <<"mnt", "vita", "">>
    /\ state.pref_path = cfg.pref_path
    /\ state.default_path = root_paths.pref_path
    /\ state.default_path # state.pref_path

\* the window was created
WindowCreated == \E i \in Positions("SDL_CreateWindow") : calls[i][3] = "ok"

\* C18 as stated: in console mode init never invokes renderer init and never
\* recomputes the viewport, and still goes on to filesystem init; outside
\* console mode the viewport is recomputed right after a successful renderer
\* init and before filesystem init, and a renderer init failure shows a
\* diagnostic for the selected backend and makes init return failure without
\* recomputing the viewport.
C18_ConsoleSkipsRenderer ==
    InitReturn # 0 =>
        /\ cfg.console =>
              /\ ~Called("renderer::init") /\ ~Called("update_viewport")
              /\ WindowCreated => Called("io::init")
        /\ ~cfg.console =>
              /\ Called("update_viewport") =>
                    (Called("renderer::init") /\ ResultOf("renderer::init") = "ok")
              /\ \A i \in Positions("renderer::init") :
                    IF calls[i][3] = "ok"
                    THEN /\ calls[i + 1][1] = "update_viewport"
                         /\ \E j \in Positions("io::init") : i + 1 < j
                    ELSE /\ calls[i + 1] = <<"error_dialog", state.backend_renderer, "">>
                         /\ calls[i + 2] = <<"return", "init", "false">>
                         /\ ~Called("update_viewport")

\* the mapping methods that need page-table translation, and the one that
\* does not, as the claim lists them
PageTableMethods == {"PageTable", "NativeBuffer"}
DirectMethods == {"Direct"}

\* C19: late_init initialises the memory subsystem with page-table
\* translation exactly when the mapping method reported by the renderer is
\* PageTable or NativeBuffer, and without a page table exactly when it is
\* Direct: every mem::init call follows directly the renderer's late_init,
\* its page-table argument is true iff the reported method is one of the
\* first two and false iff it is Direct, and the initialised memory keeps
\* that choice.
C19_PageTableByMappingMethod ==
    /\ \A i \in Positions("mem::init") :
          /\ i > 1
          /\ calls[i - 1][1] = "renderer.late_init"
          /\ calls[i][2] \in {"true", "false"}
          /\ calls[i][2] = "true" <=> calls[i - 1][3] \in PageTableMethods
          /\ calls[i][2] = "false" <=> calls[i - 1][3] \in DirectMethods
    /\ \A j \in Positions("renderer.late_init") :
          /\ j < Len(calls)
          /\ calls[j + 1][1] = "mem::init"
    /\ mem.initialized =>
          /\ mem.use_page_table <=> renderer.mapping_method \in PageTableMethods
          /\ ~mem.use_page_table <=> renderer.mapping_method \in DirectMethods
          /\ Logged("mem::init", BoolStr(mem.use_page_table), "ok")

\* late_init has initialised the memory with a page table for a renderer
\* that reported NativeBuffer, or without one for a renderer that reported
\* Direct, the renderer being there
C19_Witness ==
    /\ pc = "running"
    /\ renderer # NoRenderer /\ ~cfg.console
    /\ mem.initialized
    /\ \/ Logged("renderer.late_init", "", "NativeBuffer")
          /\ Logged("mem::init", "true", "ok")
       \/ Logged("renderer.late_init", "", "Direct")
          /\ Logged("mem::init", "false", "ok")

(***************************************************************************)
(* The viewport inside the drawable area                                   *)
(***************************************************************************)

\* float a >= 0
NonNegative(a) == a.m = 0 \/ a.s = 0

\* a + b <= n in exact arithmetic, for floats a, b and an integer n: the
\* rounded sum s and the rounding error err of the addition (s + err = a + b
\* exactly) decide it
SumAtMost(a, b, n) ==
    LET s == FAdd(a, b)
        bv == FSub(s, a)
        av == FSub(s, bv)
        err == FAdd(FSub(a, av), FSub(b, bv))
    IN  \/ FLess(s, FromInt(n))
        \/ s = FromInt(n) /\ (err.m = 0 \/ err.s = 1)

\* pos.x >= 0, pos.y >= 0, pos.x + size.x <= drawable width and
\* pos.y + size.y <= drawable height
InsideDrawable ==
    /\ NonNegative(viewport_pos.x) /\ NonNegative(viewport_pos.y)
    /\ SumAtMost(viewport_pos.x, viewport_size.x, drawable_size.x)
    /\ SumAtMost(viewport_pos.y, viewport_size.y, drawable_size.y)

\* with an unimplemented backend the drawable size is (0,0) and the viewport
\* is the degenerate rectangle
UnimplementedIsDegenerate ==
    renderer.current_backend = UnimplementedBackend =>
        /\ drawable_size = [x |-> 0, y |-> 0]
        /\ viewport_pos = FVec(FZero, FZero)
        /\ viewport_size = FVec(FZero, FZero)

PausedPeriod == kernel.paused /\ (switching.step > 0 => switching.pause)

\* the step is a call of the resume_thread callback
CallbackStep == history' = Push(history, "resume_thread")

\* C21 as stated: between the completion of switch_state(pause = TRUE) and
\* the start of the next switch_state(pause = FALSE) no emulated thread
\* becomes runnable; in particular the audio resume callback, running
\* concurrently with or after the pause, does not move a waiting thread to
\* run while the environment is paused.
C21_NoThreadRunnableWhilePaused ==
    [][ /\ (kernel.paused /\ audio.paused /\ switching = NotSwitching
              /\ ~(switching'.step > 0 /\ ~switching'.pause)) =>
              Runnable(kernel') \subseteq Runnable(kernel)
        /\ (CallbackStep /\ PausedPeriod) =>
              Runnable(kernel') \subseteq Runnable(kernel) ]_vars

(***************************************************************************)
(* switch_state called from two input sources at once                      *)
(***************************************************************************)

\* a second input source enters switch_state(emuenv, pause): nothing in
\* lines 543-563 keeps it out while the controlling thread is inside
switch_state_call_other(pause) ==
    /\ pc = "running"
    /\ switching_other.step = 0
    /\ switching_other' = [step |-> 1, pause |-> pause, overlapped |-> switching.step > 0]
    /\ runnable_before' = IF pause
                          THEN (IF kernel.paused THEN runnable_before ELSE {})
                               \cup Runnable(kernel)
                          ELSE runnable_before
    /\ history' = Push(history, IF pause THEN "pause" ELSE "resume")
    /\ UNCHANGED <<pathVars, pc, cfg, renderer, window, viewVars,
                   state, persisted, mem, kernel, audio, calls, display, switching, sync>>

\* the second source executes the next statement of its switch_state call
switch_state_step_other ==
    /\ pc = "running"
    /\ switching_other.step > 0
    /\ LET order == SwitchOrder(platform)
           effect == order[switching_other.step]
           pause == switching_other.pause
       IN  /\ display' = IF effect = "overlay"
                         THEN SwitchDisplay(platform, cfg, display, pause) ELSE display
           /\ kernel' = IF effect = "threads"
                        THEN (IF pause THEN pause_threads(kernel)
                              ELSE resume_threads(kernel))
                        ELSE kernel
           /\ audio' = IF effect = "audio" THEN audio_switch_state(audio, pause)
                       ELSE audio
           /\ switching_other' =
                 [switching_other EXCEPT !.step = IF @ = Len(order) THEN 0 ELSE @ + 1]
    /\ UNCHANGED <<pathVars, pc, cfg, renderer, window, viewVars,
                   state, persisted, mem, calls, history, runnable_before, switching, sync>>

\* the two sources; the threads' own moves and the audio callback touch neither
\* pause state and are left to SpecSwitchSteps
NextSwitchConcurrent ==
    \/ \E pause \in BOOLEAN : switch_state_call(pause)
    \/ switch_state_step
    \/ \E pause \in BOOLEAN : switch_state_call_other(pause)
    \/ switch_state_step_other

SpecSwitchConcurrent == InitSwitch /\ [][NextSwitchConcurrent]_vars

\* no switch_state call is in progress, on either source
NoCallInProgress == switching.step = 0 /\ switching_other.step = 0

\* C22 as stated: whenever no switch_state call is in progress the kernel's
\* thread pause state and the audio stream's pause state agree (both paused
\* or both running), for every sequence of switch_state calls, including two
\* calls with opposite arguments issued concurrently from different sources.
C22_KernelAudioAgree ==
    NoCallInProgress => kernel.paused = audio.paused

\* C22, amended: whenever no switch_state call is in progress and the most
\* recent call ran without overlapping another call, the kernel's thread
\* pause state and the audio stream's pause state agree (both paused or both
\* running); two calls with opposite
\* arguments issued concurrently from different sources are not serialised
\* and can leave the kernel and the audio stream in different states after
\* both have returned.
C22_AgreeAfterUnoverlappedCall ==
    (NoCallInProgress /\ ~switching_other.overlapped) =>
        kernel.paused = audio.paused

\* C22 witness: after a resume a pause has run alone from its call to its
\* return, and the kernel and the audio stream are both paused
C22_Witness ==
    /\ NoCallInProgress /\ ~switching_other.overlapped
    /\ kernel.paused /\ audio.paused
    /\ Len(history) = HistoryLen
    /\ history[HistoryLen] = "pause" /\ history[HistoryLen - 1] = "resume"

====
